---- MODULE Spec2Model ----
(***************************************************************************)
(* A model of the document-store query engine (src/nosql/query.py and      *)
(* src/nosql/query_executor.py): temporary line-delimited files, the       *)
(* filter / projection / external-sort / aggregation stages and the        *)
(* execute_query pipeline that drives them.                                *)
(*                                                                         *)
(* Specifications:                                                         *)
(*   Spec        execute_query, one step per stage and partition           *)
(*   SpecFilter  filter_by_values applied (twice) to one temporary file    *)
(*   SpecSort    execute_external_sort over a list of temporary files      *)
(*   SpecAgg     partial_aggregate per partition, then final_aggregate     *)
(*   SpecDb      Database.create_table / insert / update (src/database.py) *)
(*   SpecColl    insert_one / insert_many / drop_collection                *)
(*               (src/nosql/functions.py)                                  *)
(***************************************************************************)
EXTENDS Integers, Sequences, FiniteSets, TLC

VARIABLES
    metadata,              \* metadata.json: collection name -> partition_count
    data,                  \* data/{db}_{table}_{i}.json: i -> JSON array; an absent i is a missing file
    tmp,                   \* temporary files (delete=False): name -> sequence of lines
    nextTmp,               \* the next fresh temporary file name
    fslog,                 \* every open / create / remove of a file, in order
    query,                 \* the query text handed to execute_query
    pc,                    \* where execute_query (or the stage under test) stands
    parsed,                \* parse_query's result (columns, table, conditions, ...)
    intermediate_results,  \* execute_query's list of temporary file names
    converted_conditions,  \* the compiled condition tree
    acc,                   \* the list a comprehension or stage is building
    k,                     \* index of the partition the current loop works on
    out,                   \* rows printed, in order
    msg,                   \* messages printed, in order
    exc,                   \* the exception that left the call, or NoExc
    call,                  \* arguments of the stage call under test
    ret                    \* results of the stage calls under test, in order

vars == <<metadata, data, tmp, nextTmp, fslog, query, pc, parsed,
          intermediate_results, converted_conditions, acc, k, out, msg, exc,
          call, ret>>

----------------------------------------------------------------------------
(* Bounds of the model.                                                    *)

MaxParts == 2        \* partitions of a collection in Spec
MaxRows == 4         \* records of the collection in Spec
MaxLen == 3          \* records in the file handed to filter_by_values
MaxSortFiles == 2    \* input files of execute_external_sort
MaxSortRows == 3     \* records in all input files of execute_external_sort together
MaxAggData == 3      \* records of the dataset that is partitioned for aggregation
MaxAggParts == 2     \* partitions the dataset is split into

----------------------------------------------------------------------------
(* Python values: int, str and None (JSON null).  A value is a record so   *)
(* that values of different types can be compared for equality.            *)

I(n) == [t |-> "int", n |-> n, s |-> ""]
S(s) == [t |-> "str", n |-> 0, s |-> s]
Null == [t |-> "null", n |-> 0, s |-> ""]

NoExc == "none"

\* Order of the strings that occur as data or literals (str.__lt__).
StrRank(s) ==
    CASE s = "" -> 0
      [] s = "3" -> 1
      [] s = "x" -> 2
      [] s = "xy" -> 3
      [] s = "y" -> 4

\* a in b for two strings (substring test), over the same strings.
StrContains(b, a) ==
    \/ a = ""
    \/ a = b
    \/ b = "xy" /\ a \in {"x", "y"}

\* str.upper() and str.lower() on the words that occur in queries and trees.
Upper(s) ==
    CASE s \in {"and", "And", "AND"} -> "AND"
      [] s \in {"or", "Or", "OR"} -> "OR"
      [] s = "xor" -> "XOR"
      [] s = "a" -> "A"
      [] s = "b" -> "B"
      [] s = "c" -> "C"
      [] s = "in" -> "IN"
      [] s = "like" -> "LIKE"
      [] OTHER -> s

Lower(s) ==
    CASE s \in {"get", "Get", "GET"} -> "get"
      [] s \in {"from", "FROM"} -> "from"
      [] s \in {"filter", "FILTER"} -> "filter"
      [] s \in {"group", "GROUP"} -> "group"
      [] s \in {"sort", "SORT"} -> "sort"
      [] s \in {"limit", "LIMIT"} -> "limit"
      [] s \in {"desc", "DESC"} -> "desc"
      [] s \in {"asc", "ASC"} -> "asc"
      [] s \in {"and", "AND"} -> "and"
      [] s \in {"or", "OR"} -> "or"
      [] s = "COUNT(a)" -> "count(a)"
      [] s = "SUM(a)" -> "sum(a)"
      [] s = "MAX(a)" -> "max(a)"
      [] OTHER -> s

\* dict.get(key): None when the key is absent.
Get(item, f) == IF f \in DOMAIN item THEN item[f] ELSE Null

\* json.dump(item, f); f.write('\n')   and   json.loads(line)
JsonDumps(item) == [json |-> item]
JsonLoads(line) == line.json

RECURSIVE DumpAll(_)
DumpAll(items) ==
    IF items = <<>> THEN <<>>
    ELSE <<JsonDumps(Head(items))>> \o DumpAll(Tail(items))

RECURSIVE LoadAll(_)
LoadAll(lines) ==
    IF lines = <<>> THEN <<>>
    ELSE <<JsonLoads(Head(lines))>> \o LoadAll(Tail(lines))

----------------------------------------------------------------------------
(* The temporary-file store.  fs = [files, next, log].                     *)

\* An event of the log: op on temporary file n (path "") or on the durable
\* file path (n its partition number, 0 for the metadata file).
Ev(op, path, n) == [op |-> op, path |-> path, n |-> n]

FsNow == [files |-> tmp, next |-> nextTmp, log |-> fslog]

\* tempfile.NamedTemporaryFile(delete=False, mode='w'): a fresh, empty file.
NamedTemporaryFile(fs) ==
    [files |-> fs.files @@ (fs.next :> <<>>),
     next |-> fs.next + 1,
     log |-> Append(fs.log, Ev("create", "", fs.next))]

WriteLines(fs, name, lines) ==
    [fs EXCEPT !.files = [f \in DOMAIN fs.files |->
                            IF f = name THEN fs.files[f] \o lines ELSE fs.files[f]]]

OpenRead(fs, name) == [fs EXCEPT !.log = Append(fs.log, Ev("open", "", name))]

\* os.remove(name)
Remove(fs, name) ==
    [fs EXCEPT !.files = [f \in DOMAIN fs.files \ {name} |-> fs.files[f]],
               !.log = Append(fs.log, Ev("remove", "", name))]

----------------------------------------------------------------------------
(* filter_by_values: the condition evaluator and the filter stage.         *)

Leaf(target, condition, value) ==
    [target |-> target, condition |-> condition, value |-> value]
Node(operator, conditions) ==
    [operator |-> operator, conditions |-> conditions]

ConditionNames == {"gt", "lt", "gte", "lte", "eq", "ne", "in"}

\* condition_functions[op](x, v): "true", "false" or "TypeError".
Bool(b) == IF b THEN "true" ELSE "false"

condition_functions(op, x, v) ==
    IF op \in {"eq", "ne"} THEN Bool((x = v) <=> (op = "eq"))
    ELSE IF op = "in" THEN
        IF x.t = "str" /\ v.t = "str" THEN Bool(StrContains(v.s, x.s))
        ELSE "TypeError"
    ELSE IF x.t = "int" /\ v.t = "int" THEN
        Bool(CASE op = "gt" -> x.n > v.n
               [] op = "lt" -> x.n < v.n
               [] op = "gte" -> x.n >= v.n
               [] op = "lte" -> x.n <= v.n)
    ELSE IF x.t = "str" /\ v.t = "str" THEN
        Bool(CASE op = "gt" -> StrRank(x.s) > StrRank(v.s)
               [] op = "lt" -> StrRank(x.s) < StrRank(v.s)
               [] op = "gte" -> StrRank(x.s) >= StrRank(v.s)
               [] op = "lte" -> StrRank(x.s) <= StrRank(v.s))
    ELSE "TypeError"

\* evaluate_condition without the `target_value is not None` test.
evaluate_conditionNoneCompared(item, condition) ==
    IF condition.condition \notin ConditionNames THEN "ValueError"
    ELSE LET r == condition_functions(condition.condition,
                                      Get(item, condition.target), condition.value)
         IN  IF r = "TypeError" THEN "false" ELSE r

\* "true", "false" or "ValueError" (an operator that is no condition function).
evaluate_condition(item, condition) ==
    IF condition.condition \notin ConditionNames THEN "ValueError"
    ELSE LET target_value == Get(item, condition.target)
             r == condition_functions(condition.condition, target_value,
                                      condition.value)
         IN  IF target_value = Null THEN "false"
             ELSE IF r = "TypeError" THEN "false"
             ELSE r

RECURSIVE item_satisfies_conditions(_, _)
RECURSIVE AllSatisfy(_, _)
RECURSIVE AnySatisfy(_, _)

\* all(item_satisfies_conditions(item, cond) for cond in sub_conditions)
AllSatisfy(item, sub_conditions) ==
    IF sub_conditions = <<>> THEN "true"
    ELSE LET r == item_satisfies_conditions(item, Head(sub_conditions))
         IN  IF r = "true" THEN AllSatisfy(item, Tail(sub_conditions)) ELSE r

\* any(item_satisfies_conditions(item, cond) for cond in sub_conditions)
AnySatisfy(item, sub_conditions) ==
    IF sub_conditions = <<>> THEN "false"
    ELSE LET r == item_satisfies_conditions(item, Head(sub_conditions))
         IN  IF r = "false" THEN AnySatisfy(item, Tail(sub_conditions)) ELSE r

item_satisfies_conditions(item, conditions) ==
    IF "operator" \in DOMAIN conditions /\ "conditions" \in DOMAIN conditions
    THEN IF Upper(conditions.operator) = "AND"
         THEN AllSatisfy(item, conditions.conditions)
         ELSE IF Upper(conditions.operator) = "OR"
         THEN AnySatisfy(item, conditions.conditions)
         ELSE "ValueError"
    ELSE evaluate_condition(item, conditions)

\* The loop with a `break` where the code skips a rejected record.
RECURSIVE FilterLoopBreaks(_, _, _)
FilterLoopBreaks(lines, conditions, written) ==
    IF lines = <<>> THEN [written |-> written, exc |-> NoExc]
    ELSE LET item == JsonLoads(Head(lines))
             r == item_satisfies_conditions(item, conditions)
         IN  IF r = "ValueError" THEN [written |-> written, exc |-> "ValueError"]
             ELSE IF r = "false" THEN [written |-> written, exc |-> NoExc]
             ELSE FilterLoopBreaks(Tail(lines), conditions,
                                   Append(written, JsonDumps(item)))

\* The loop reading the first line as a header that is never written.
FilterLoopSkipsHeader(lines, conditions, written) ==
    LET rest == IF lines = <<>> THEN <<>> ELSE Tail(lines)
        Keep(line) == item_satisfies_conditions(JsonLoads(line), conditions) = "true"
    IN  [written |-> written \o SelectSeq(rest, Keep), exc |-> NoExc]

\* The loop of filter_by_values over the lines of the input file: the lines
\* written before the loop ends or raises, and how it ended.
RECURSIVE FilterLoop(_, _, _)
FilterLoop(lines, conditions, written) ==
    IF lines = <<>> THEN [written |-> written, exc |-> NoExc]
    ELSE LET item == JsonLoads(Head(lines))
             r == item_satisfies_conditions(item, conditions)
         IN  IF r = "ValueError" THEN [written |-> written, exc |-> "ValueError"]
             ELSE FilterLoop(Tail(lines), conditions,
                             IF r = "true" THEN Append(written, JsonDumps(item))
                             ELSE written)

\* filter_by_values(temp_file, conditions) on the file store: the store after
\* the call, the name returned and the exception raised.
filter_by_values(fs, temp_file, conditions) ==
    IF temp_file \notin DOMAIN fs.files
    THEN [fs |-> fs, name |-> 0, exc |-> "FileNotFoundError"]
    ELSE LET opened == OpenRead(fs, temp_file)
             created == NamedTemporaryFile(opened)
             new_temp_file == opened.next
             loop == FilterLoop(opened.files[temp_file], conditions, <<>>)
             filled == WriteLines(created, new_temp_file, loop.written)
         IN  IF loop.exc # NoExc
             THEN [fs |-> filled, name |-> 0, exc |-> loop.exc]
             ELSE [fs |-> Remove(filled, temp_file), name |-> new_temp_file,
                   exc |-> NoExc]

----------------------------------------------------------------------------
(* External sort: _sort_and_write_chunk, _push_to_heap,                    *)
(* _merge_sorted_files, execute_external_sort.                             *)
(* A sort key is [list, fields]: list tells isinstance(sort_key, list).    *)
(* A key value is the sequence of the record's values for the fields (a    *)
(* one-element sequence for a key that is no list).                        *)

KeyStr(f) == [list |-> FALSE, fields |-> <<f>>]
KeyList(fs) == [list |-> TRUE, fields |-> fs]

HasKey(item, sort_key) ==
    \A i \in DOMAIN sort_key.fields : sort_key.fields[i] \in DOMAIN item

\* lambda x: tuple(x[k] for k in sort_key)   /   lambda x: x[sort_key]
KeyOf(item, sort_key) == [i \in DOMAIN sort_key.fields |-> item[sort_key.fields[i]]]

\* x < y for two values of one type (int or str).
ValueLess(x, y) ==
    CASE x.t = "int" /\ y.t = "int" -> x.n < y.n
      [] x.t = "str" /\ y.t = "str" -> StrRank(x.s) < StrRank(y.s)

\* Python's tuple comparison: the first position where the two differ decides.
RECURSIVE KeyLess(_, _)
KeyLess(k1, k2) ==
    IF k1 = <<>> \/ k2 = <<>> THEN k1 = <<>> /\ k2 # <<>>
    ELSE IF Head(k1) = Head(k2) THEN KeyLess(Tail(k1), Tail(k2))
    ELSE ValueLess(Head(k1), Head(k2))

\* list.sort(key=..., reverse=reverse) is stable in both directions: x goes
\* behind every element that does not have to follow it.
RECURSIVE InsertSorted(_, _, _, _)
InsertSorted(sorted, x, sort_key, reverse) ==
    IF sorted = <<>> THEN <<x>>
    ELSE LET h == Head(sorted)
             before == IF reverse
                       THEN KeyLess(KeyOf(h, sort_key), KeyOf(x, sort_key))
                       ELSE KeyLess(KeyOf(x, sort_key), KeyOf(h, sort_key))
         IN  IF before THEN <<x>> \o sorted
             ELSE <<h>> \o InsertSorted(Tail(sorted), x, sort_key, reverse)

RECURSIVE SortItems(_, _, _, _)
SortItems(items, sort_key, reverse, sorted) ==
    IF items = <<>> THEN sorted
    ELSE SortItems(Tail(items), sort_key, reverse,
                   InsertSorted(sorted, Head(items), sort_key, reverse))

\* _sort_and_write_chunk(file_name, sort_key, reverse) on the file store.
sort_and_write_chunk(fs, file_name, sort_key, reverse) ==
    IF file_name \notin DOMAIN fs.files
    THEN [fs |-> fs, name |-> 0, exc |-> "FileNotFoundError"]
    ELSE LET opened == OpenRead(fs, file_name)
             items == LoadAll(opened.files[file_name])
         IN  IF \E i \in DOMAIN items : ~HasKey(items[i], sort_key)
             THEN [fs |-> opened, name |-> 0, exc |-> "KeyError"]
             ELSE LET created == NamedTemporaryFile(opened)
                      temp_file == opened.next
                  IN  [fs |-> WriteLines(created, temp_file,
                                 DumpAll(SortItems(items, sort_key, reverse, <<>>))),
                       name |-> temp_file, exc |-> NoExc]

\* The heap key without the negation that reverse asks for.
HeapKeyNotNegated(item, sort_key, reverse) ==
    IF ~HasKey(item, sort_key) THEN [exc |-> "KeyError", key |-> <<>>]
    ELSE [exc |-> NoExc, key |-> KeyOf(item, sort_key)]

\* The key _push_to_heap computes: -data[k] if reverse else data[k].
HeapKey(item, sort_key, reverse) ==
    IF ~HasKey(item, sort_key) THEN [exc |-> "KeyError", key |-> <<>>]
    ELSE LET raw == KeyOf(item, sort_key)
         IN  IF ~reverse THEN [exc |-> NoExc, key |-> raw]
             ELSE IF \E i \in DOMAIN raw : raw[i].t # "int"
             THEN [exc |-> "TypeError", key |-> <<>>]
             ELSE [exc |-> NoExc, key |-> [i \in DOMAIN raw |-> I(-raw[i].n)]]

\* The tuple order with the file_index component compared downwards.
EntryLessHigherIndex(e1, e2) ==
    IF e1.key # e2.key THEN Bool(KeyLess(e1.key, e2.key))
    ELSE IF e1.file_index # e2.file_index THEN Bool(e1.file_index > e2.file_index)
    ELSE IF e1.data = e2.data THEN "false"
    ELSE "TypeError"

\* (key, file_index, data) < (key', file_index', data'): "true", "false", or
\* "TypeError" when key and file_index tie and two dicts would be compared.
EntryLess(e1, e2) ==
    IF e1.key # e2.key THEN Bool(KeyLess(e1.key, e2.key))
    ELSE IF e1.file_index # e2.file_index THEN Bool(e1.file_index < e2.file_index)
    ELSE IF e1.data = e2.data THEN "false"
    ELSE "TypeError"

\* _push_to_heap.  The heap is kept as the sequence of its entries; heapq's
\* array layout decides only which pairs are compared, not what is popped.
push_to_heap(heap, file_index, item, sort_key, reverse) ==
    LET hk == HeapKey(item, sort_key, reverse)
        e == [key |-> hk.key, file_index |-> file_index, data |-> item]
    IN  IF hk.exc # NoExc THEN [heap |-> heap, exc |-> hk.exc]
        ELSE IF \E i \in DOMAIN heap : EntryLess(e, heap[i]) = "TypeError"
        THEN [heap |-> heap, exc |-> "TypeError"]
        ELSE [heap |-> Append(heap, e), exc |-> NoExc]

\* heapq.heappop: the position of the smallest entry.
HeapMin(heap) ==
    CHOOSE i \in DOMAIN heap :
        \A j \in DOMAIN heap \ {i} : EntryLess(heap[i], heap[j]) = "true"

RemoveAt(seq, i) == SubSeq(seq, 1, i - 1) \o SubSeq(seq, i + 1, Len(seq))

\* The state of _merge_sorted_files: runs[i] are the lines of sorted file i
\* (file_index i - 1), pos[i] how many of them were read, merged the lines
\* written to the merged file.
\* Reading the first line of every file and pushing it.
RECURSIVE MergeInit(_, _, _, _)
MergeInit(ms, i, sort_key, reverse) ==
    IF i > Len(ms.runs) \/ ms.exc # NoExc THEN ms
    ELSE IF ms.runs[i] = <<>> THEN MergeInit(ms, i + 1, sort_key, reverse)
    ELSE LET p == push_to_heap(ms.heap, i - 1, JsonLoads(ms.runs[i][1]),
                               sort_key, reverse)
         IN  MergeInit([ms EXCEPT !.heap = p.heap, !.exc = p.exc,
                                  !.pos[i] = 1],
                       i + 1, sort_key, reverse)

\* One round of `while heap`: pop, write, read the next line of the same
\* file and push it.
MergeStep(ms, sort_key, reverse) ==
    LET m == HeapMin(ms.heap)
        e == ms.heap[m]
        i == e.file_index + 1
        popped == RemoveAt(ms.heap, m)
        written == Append(ms.merged, JsonDumps(e.data))
    IN  IF ms.pos[i] >= Len(ms.runs[i])
        THEN [ms EXCEPT !.heap = popped, !.merged = written]
        ELSE LET p == push_to_heap(popped, e.file_index,
                                   JsonLoads(ms.runs[i][ms.pos[i] + 1]),
                                   sort_key, reverse)
             IN  [ms EXCEPT !.heap = p.heap, !.merged = written, !.exc = p.exc,
                            !.pos[i] = ms.pos[i] + 1]

RECURSIVE MergeLoop(_, _, _)
MergeLoop(ms, sort_key, reverse) ==
    IF ms.heap = <<>> \/ ms.exc # NoExc THEN ms
    ELSE MergeLoop(MergeStep(ms, sort_key, reverse), sort_key, reverse)

RECURSIVE OpenAll(_, _)
OpenAll(fs, names) ==
    IF names = <<>> THEN fs ELSE OpenAll(OpenRead(fs, Head(names)), Tail(names))

RECURSIVE RemoveAll(_, _)
RemoveAll(fs, names) ==
    IF names = <<>> THEN fs ELSE RemoveAll(Remove(fs, Head(names)), Tail(names))

\* _merge_sorted_files(sorted_files, sort_key, reverse) on the file store.
\* The merged file is created after the heap is first filled.
merge_sorted_files(fs, sorted_files, sort_key, reverse) ==
    IF \E i \in DOMAIN sorted_files : sorted_files[i] \notin DOMAIN fs.files
    THEN [fs |-> fs, name |-> 0, exc |-> "FileNotFoundError"]
    ELSE LET opened == OpenAll(fs, sorted_files)
             ms0 == [runs |-> [i \in DOMAIN sorted_files |-> fs.files[sorted_files[i]]],
                     pos |-> [i \in DOMAIN sorted_files |-> 0],
                     heap |-> <<>>, merged |-> <<>>, exc |-> NoExc]
             ms1 == MergeInit(ms0, 1, sort_key, reverse)
         IN  IF ms1.exc # NoExc THEN [fs |-> opened, name |-> 0, exc |-> ms1.exc]
             ELSE LET created == NamedTemporaryFile(opened)
                      merged_file == opened.next
                      ms2 == MergeLoop(ms1, sort_key, reverse)
                      filled == WriteLines(created, merged_file, ms2.merged)
                  IN  IF ms2.exc # NoExc
                      THEN [fs |-> filled, name |-> 0, exc |-> ms2.exc]
                      ELSE [fs |-> filled, name |-> merged_file, exc |-> NoExc]

\* sorted_files = [_sort_and_write_chunk(f, ...) for f in input_files]
RECURSIVE SortChunks(_, _, _, _, _)
SortChunks(fs, input_files, sort_key, reverse, sorted_files) ==
    IF input_files = <<>> THEN [fs |-> fs, names |-> sorted_files, exc |-> NoExc]
    ELSE LET r == sort_and_write_chunk(fs, Head(input_files), sort_key, reverse)
         IN  IF r.exc # NoExc THEN [fs |-> r.fs, names |-> sorted_files, exc |-> r.exc]
             ELSE SortChunks(r.fs, Tail(input_files), sort_key, reverse,
                             Append(sorted_files, r.name))

\* execute_external_sort(input_files, sort_key, reverse) on the file store.
execute_external_sort(fs, input_files, sort_key, reverse) ==
    LET chunks == SortChunks(fs, input_files, sort_key, reverse, <<>>)
    IN  IF chunks.exc # NoExc THEN [fs |-> chunks.fs, name |-> 0, exc |-> chunks.exc]
        ELSE LET m == merge_sorted_files(chunks.fs, chunks.names, sort_key, reverse)
             IN  IF m.exc # NoExc THEN m
                 ELSE [fs |-> RemoveAll(m.fs, chunks.names), name |-> m.name,
                       exc |-> NoExc]

----------------------------------------------------------------------------
(* Aggregation: partial_aggregate and final_aggregate.                     *)
(* targets is a function target field -> aggregation name; group_keys a    *)
(* sequence of fields.  A dict that is iterated is [order, val]: its keys  *)
(* in insertion order and the function from keys to values.                *)

RECURSIVE SumSeq(_)
SumSeq(values) == IF values = <<>> THEN 0 ELSE Head(values).n + SumSeq(Tail(values))

RECURSIVE MaxSeq(_)
MaxSeq(ns) ==
    IF Len(ns) = 1 THEN ns[1]
    ELSE LET m == MaxSeq(Tail(ns)) IN IF ns[1] >= m THEN ns[1] ELSE m

RECURSIVE MinSeq(_)
MinSeq(ns) ==
    IF Len(ns) = 1 THEN ns[1]
    ELSE LET m == MinSeq(Tail(ns)) IN IF ns[1] <= m THEN ns[1] ELSE m

IsNumeric(v) == v.t \in {"int", "float"}

\* The read loop of partial_aggregate: grouped_data after the records.
RECURSIVE GroupLoop(_, _, _, _)
GroupLoop(items, group_keys, targets, gd) ==
    IF items = <<>> THEN gd
    ELSE LET record == Head(items)
         IN  IF \E i \in DOMAIN group_keys : group_keys[i] \notin DOMAIN record
             THEN [gd EXCEPT !.exc = "KeyError"]
             ELSE LET gkv == [i \in DOMAIN group_keys |-> record[group_keys[i]]]
                      present == {t \in DOMAIN targets : t \in DOMAIN record}
                      old == IF gkv \in DOMAIN gd.val THEN gd.val[gkv]
                             ELSE [t \in DOMAIN targets |-> <<>>]
                      new == [t \in DOMAIN targets |->
                                IF t \in present THEN Append(old[t], record[t])
                                ELSE old[t]]
                  IN  IF present = {}
                      THEN GroupLoop(Tail(items), group_keys, targets, gd)
                      ELSE GroupLoop(Tail(items), group_keys, targets,
                               [order |-> IF gkv \in DOMAIN gd.val THEN gd.order
                                          ELSE Append(gd.order, gkv),
                                val |-> [g \in DOMAIN gd.val \cup {gkv} |->
                                           IF g = gkv THEN new ELSE gd.val[g]],
                                exc |-> NoExc])

AggregationNames == {"sum", "avg", "count", "max", "min"}

\* The partial value of one target of one group; "ValueError" for max() or
\* min() of no numeric value and for an unsupported aggregation.
PartialValue(aggregation, values) ==
    LET numeric_values == SelectSeq(values, IsNumeric)
        ns == [i \in DOMAIN numeric_values |-> numeric_values[i].n]
    IN  CASE aggregation = "sum" -> SumSeq(numeric_values)
          [] aggregation = "avg" -> <<SumSeq(numeric_values), Len(numeric_values)>>
          [] aggregation = "count" -> Len(values)
          [] aggregation = "max" -> IF ns = <<>> THEN "ValueError" ELSE MaxSeq(ns)
          [] aggregation = "min" -> IF ns = <<>> THEN "ValueError" ELSE MinSeq(ns)
          [] OTHER -> "ValueError"

PartialRaises(aggregation, values) ==
    \/ aggregation \notin AggregationNames
    \/ aggregation \in {"max", "min"} /\ SelectSeq(values, IsNumeric) = <<>>

\* partial_aggregate(temp_file_name, group_keys, targets) on the file store:
\* the partial result [order, val] and the exception raised.
partial_aggregate(fs, temp_file_name, group_keys, targets) ==
    IF temp_file_name \notin DOMAIN fs.files
    THEN [fs |-> fs, order |-> <<>>, val |-> <<>>, exc |-> "FileNotFoundError"]
    ELSE LET opened == OpenRead(fs, temp_file_name)
             gd == GroupLoop(LoadAll(opened.files[temp_file_name]), group_keys,
                             targets, [order |-> <<>>, val |-> <<>>, exc |-> NoExc])
         IN  IF gd.exc # NoExc
             THEN [fs |-> opened, order |-> <<>>, val |-> <<>>, exc |-> gd.exc]
             ELSE IF \E g \in DOMAIN gd.val : \E t \in DOMAIN targets :
                        PartialRaises(targets[t], gd.val[g][t])
             THEN [fs |-> opened, order |-> <<>>, val |-> <<>>, exc |-> "ValueError"]
             ELSE [fs |-> opened, order |-> gd.order,
                   val |-> [g \in DOMAIN gd.val |->
                              [t \in DOMAIN targets |->
                                 PartialValue(targets[t], gd.val[g][t])]],
                   exc |-> NoExc]

\* The merge loop of final_aggregate over one partial result, group by group.
RECURSIVE MergePartial(_, _, _, _)
MergePartial(final_result, partial, groups, targets) ==
    IF groups = <<>> THEN final_result
    ELSE LET g == Head(groups)
             old == IF g \in DOMAIN final_result.val THEN final_result.val[g]
                    ELSE [t \in DOMAIN targets |->
                            [sum |-> 0, count |-> 0, values |-> <<>>]]
             value(t) == partial.val[g][t]
             new == [t \in DOMAIN targets |->
                       CASE targets[t] \in {"sum", "count"} ->
                              [old[t] EXCEPT !.sum = @ + value(t)]
                         [] targets[t] = "avg" ->
                              [old[t] EXCEPT !.sum = @ + value(t)[1],
                                             !.count = @ + value(t)[2]]
                         [] targets[t] \in {"max", "min"} ->
                              [old[t] EXCEPT !.values = Append(@, value(t))]
                         [] OTHER -> old[t]]
         IN  MergePartial(
                 [order |-> IF g \in DOMAIN final_result.val THEN final_result.order
                            ELSE Append(final_result.order, g),
                  val |-> [h \in DOMAIN final_result.val \cup {g} |->
                             IF h = g THEN new ELSE final_result.val[h]]],
                 partial, Tail(groups), targets)

RECURSIVE MergePartials(_, _, _)
MergePartials(final_result, partial_results, targets) ==
    IF partial_results = <<>> THEN final_result
    ELSE MergePartials(
             MergePartial(final_result, Head(partial_results),
                          Head(partial_results).order, targets),
             Tail(partial_results), targets)

\* round(sum / count, 4), kept as the number of ten-thousandths.
Round4(sum, count) == (2 * sum * 10000 + count) \div (2 * count)

Float4(n) == [t |-> "float", n |-> n, s |-> ""]

\* f'{target}_{aggregation}'
AggKey(target, aggregation) == target \o "_" \o aggregation

\* The output row of one group.
GroupDoc(group_keys, group_values, targets) ==
    LET names == {AggKey(t, targets[t]) : t \in DOMAIN targets}
        TargetOf(name) == CHOOSE t \in DOMAIN targets : AggKey(t, targets[t]) = name
        Final(t) ==
            LET d == group_values[t]
            IN  CASE targets[t] = "avg" ->
                       IF d.count > 0 THEN Float4(Round4(d.sum, d.count)) ELSE I(0)
                  [] targets[t] = "max" -> I(MaxSeq(d.values))
                  [] targets[t] = "min" -> I(MinSeq(d.values))
                  [] OTHER -> I(d.sum)
    IN  [name \in {"_key"} \cup names |->
           IF name = "_key"
           THEN IF Len(group_keys) > 1 THEN [t |-> "list", items |-> group_keys]
                ELSE group_keys[1]
           ELSE Final(TargetOf(name))]

\* final_aggregate(partial_results, targets): the list of output rows, or
\* IndexError for a group key that is the empty tuple.
final_aggregate(partial_results, targets) ==
    LET final_result == MergePartials([order |-> <<>>, val |-> <<>>],
                                      partial_results, targets)
    IN  IF \E i \in DOMAIN final_result.order : final_result.order[i] = <<>>
        THEN [rows |-> <<>>, exc |-> "IndexError"]
        ELSE [rows |-> [i \in DOMAIN final_result.order |->
                          GroupDoc(final_result.order[i],
                                   final_result.val[final_result.order[i]], targets)],
              exc |-> NoExc]

\* partial_agg = [partial_aggregate(f, group_key, targets) for f in files]
RECURSIVE PartialAggregates(_, _, _, _, _)
PartialAggregates(fs, files, group_keys, targets, done) ==
    IF files = <<>> THEN [fs |-> fs, partials |-> done, exc |-> NoExc]
    ELSE LET r == partial_aggregate(fs, Head(files), group_keys, targets)
         IN  IF r.exc # NoExc THEN [fs |-> r.fs, partials |-> done, exc |-> r.exc]
             ELSE PartialAggregates(r.fs, Tail(files), group_keys, targets,
                                    Append(done, [order |-> r.order, val |-> r.val]))

\* final_aggregate(map(partial_aggregate, files), targets)
Aggregate(fs, files, group_keys, targets) ==
    LET p == PartialAggregates(fs, files, group_keys, targets, <<>>)
    IN  IF p.exc # NoExc THEN [fs |-> p.fs, rows |-> <<>>, exc |-> p.exc]
        ELSE LET f == final_aggregate(p.partials, targets)
             IN  [fs |-> p.fs, rows |-> f.rows, exc |-> f.exc]

----------------------------------------------------------------------------
(* The query compiler: parse_query, convert_to_nested_format,              *)
(* parse_aggregation_query.  A query is [closed, parts]: parts are the     *)
(* tokens shlex.split(query, posix=False) returns, closed is FALSE when    *)
(* the text has an unclosed quotation and shlex.split raises ValueError.   *)
(* Indexes are Python's: 0-based, NoIndex for None.                        *)

NoIndex == -1

\* list.index(x) when x is in the list, None otherwise.
Index0(seq, x) ==
    IF \E i \in DOMAIN seq : seq[i] = x
    THEN (CHOOSE i \in DOMAIN seq : seq[i] = x /\ \A j \in 1..(i - 1) : seq[j] # x) - 1
    ELSE NoIndex

\* The truth value of an index: None and 0 are false.
Truthy(i) == i > 0

\* a or b
Or(a, b) == IF Truthy(a) THEN a ELSE b

\* seq[i:j] for 0 <= i
PySlice(seq, i, j) == SubSeq(seq, i + 1, IF j < Len(seq) THEN j ELSE Len(seq))

LowerAll(seq) == [i \in DOMAIN seq |-> Lower(seq[i])]

\* token.replace(',', '')
NoComma(token) ==
    CASE token = "a," -> "a"
      [] token = "b," -> "b"
      [] token = "," -> ""
      [] OTHER -> token

\* ' '.join(tokens).replace(',', '').split()
RECURSIVE JoinReplaceSplit(_)
JoinReplaceSplit(tokens) ==
    IF tokens = <<>> THEN <<>>
    ELSE (IF NoComma(Head(tokens)) = "" THEN <<>> ELSE <<NoComma(Head(tokens))>>)
         \o JoinReplaceSplit(Tail(tokens))

\* Tokens that start and end with a double quote, and what is between.
DoubleQuoted(token) == token \in {"\"x\"", "\"3\""}
Unquoted(token) ==
    CASE token = "\"x\"" -> "x"
      [] token = "\"3\"" -> "3"
      [] token = "'x'" -> "x"
      [] OTHER -> token

\* Tokens int() accepts, and their values.
IntTokens == {"1", "2", "3", "130"}
IntOf(token) ==
    CASE token = "1" -> 1
      [] token = "2" -> 2
      [] token = "3" -> 3
      [] token = "130" -> 130

\* process_filter_value(value)
process_filter_value(value) ==
    IF DoubleQuoted(value) THEN S(Unquoted(value))
    ELSE IF value \in IntTokens THEN I(IntOf(value))
    ELSE S(value)

\* list.remove(x): the list without the first x.
RemoveFirst(seq, x) == RemoveAt(seq, Index0(seq, x) + 1)

Has(seq, x) == \E i \in DOMAIN seq : seq[i] = x

NoneTuple ==
    [none |-> TRUE, exc |-> NoExc, columns |-> <<>>, table |-> "",
     conditions |-> <<>>, group_by |-> <<>>, sort_by |-> <<>>,
     reverse |-> FALSE, limit |-> Null]

Raise(e) == [NoneTuple EXCEPT !.none = FALSE, !.exc = e]

\* parse_query(query)
parse_query(q) ==
    IF ~q.closed THEN Raise("ValueError")
    ELSE
    LET parts == q.parts
        parts_lower == LowerAll(parts)
        get_index == Index0(parts_lower, "get")
        from_index == Index0(parts_lower, "from")
        filter_index == Index0(parts_lower, "filter")
        group_index == Index0(parts_lower, "group")
        sort_index == Index0(parts_lower, "sort")
        limit_index == Index0(parts_lower, "limit")
        columns == JoinReplaceSplit(PySlice(parts, get_index + 1, from_index))
        filter_end == Or(group_index, Or(sort_index, Or(limit_index, Len(parts))))
        conditions ==
            IF Truthy(filter_index)
            THEN LET filter_parts == PySlice(parts, filter_index + 1, filter_end)
                 IN  [i \in DOMAIN filter_parts |-> process_filter_value(filter_parts[i])]
            ELSE <<>>
        group_end == Or(sort_index, Or(limit_index, Len(parts)))
        group_by ==
            IF Truthy(group_index)
            THEN JoinReplaceSplit(PySlice(parts, group_index + 1, group_end))
            ELSE <<>>
        sort_end == Or(limit_index, Len(parts))
        sort_all ==
            IF Truthy(sort_index)
            THEN JoinReplaceSplit(PySlice(parts, sort_index + 1, sort_end))
            ELSE <<>>
        sort_by_lower == LowerAll(sort_all)
        reverse == Has(sort_by_lower, "desc")
        removed ==
            IF Has(sort_by_lower, "desc")
            THEN IF Has(sort_all, "DESC") THEN "DESC" ELSE "desc"
            ELSE IF Has(sort_by_lower, "asc")
            THEN IF Has(sort_all, "ASC") THEN "ASC" ELSE "asc"
            ELSE ""
        sort_by == IF removed = "" \/ ~Has(sort_all, removed) THEN sort_all
                   ELSE RemoveFirst(sort_all, removed)
    IN  IF get_index = NoIndex \/ from_index = NoIndex THEN NoneTuple
        ELSE IF from_index + 1 >= Len(parts) THEN Raise("IndexError")
        ELSE IF removed # "" /\ ~Has(sort_all, removed) THEN Raise("ValueError")
        ELSE IF Truthy(limit_index) /\ limit_index + 1 >= Len(parts)
        THEN Raise("IndexError")
        ELSE IF Truthy(limit_index) /\ parts[limit_index + 2] \notin IntTokens
        THEN Raise("ValueError")
        ELSE [none |-> FALSE, exc |-> NoExc, columns |-> columns,
              table |-> parts[from_index + 2], conditions |-> conditions,
              group_by |-> group_by, sort_by |-> sort_by, reverse |-> reverse,
              limit |-> IF Truthy(limit_index) THEN I(IntOf(parts[limit_index + 2]))
                        ELSE Null]

\* operator_mapping and operator_flip of convert_to_nested_format
OperatorSymbols == {">", "<", ">=", "<=", "=", "!=", "in"}
operator_mapping(symbol) ==
    CASE symbol = ">" -> "gt"
      [] symbol = "<" -> "lt"
      [] symbol = ">=" -> "gte"
      [] symbol = "<=" -> "lte"
      [] symbol = "=" -> "eq"
      [] symbol = "!=" -> "ne"
      [] symbol = "in" -> "in"

\* operator_flip.get(symbol, symbol)
operator_flip(symbol) ==
    CASE symbol = ">" -> "<"
      [] symbol = "<" -> ">"
      [] symbol = ">=" -> "<="
      [] symbol = "<=" -> ">="
      [] OTHER -> symbol

\* is_number(s): float(s) succeeds.
is_number(v) == v.t = "int" \/ (v.t = "str" /\ v.s \in IntTokens)

\* A dict key that is no string is never a field of a JSON record.
TargetName(v) == IF v.t = "str" THEN v.s ELSE "<number>"

\* value.strip('\'"') for a str value
StripQuotes(v) == IF v.t = "str" THEN S(Unquoted(v.s)) ELSE v

\* handle_condition(sublist): the leaf, or ValueError (not three items to
\* unpack) or KeyError (no such operator).
handle_condition(sublist) ==
    IF Len(sublist) # 3 THEN [exc |-> "ValueError", leaf |-> <<>>]
    ELSE LET first == sublist[1]
             second == sublist[3]
             flipped == IF sublist[2].t = "str" /\ is_number(first)
                        THEN S(operator_flip(sublist[2].s)) ELSE sublist[2]
             target == IF is_number(first) THEN second ELSE first
             value == IF is_number(first) THEN first ELSE second
         IN  IF flipped.t # "str" \/ flipped.s \notin OperatorSymbols
             THEN [exc |-> "KeyError", leaf |-> <<>>]
             ELSE [exc |-> NoExc,
                   leaf |-> Leaf(TargetName(target), operator_mapping(flipped.s),
                                 StripQuotes(value))]

\* The while loop that never wraps the conditions seen so far.
RECURSIVE ConvertLoopFlat(_, _, _, _)
ConvertLoopFlat(condition_list, i, conditions, current_operator) ==
    IF i >= Len(condition_list)
    THEN [conditions |-> conditions, current_operator |-> current_operator,
          exc |-> NoExc]
    ELSE LET token == condition_list[i + 1]
         IN  IF token.t # "str"
             THEN [conditions |-> conditions, current_operator |-> current_operator,
                   exc |-> "AttributeError"]
             ELSE IF Upper(token.s) \in {"AND", "OR"}
             THEN ConvertLoopFlat(condition_list, i + 1, conditions, Upper(token.s))
             ELSE LET h == handle_condition(PySlice(condition_list, i, i + 3))
                  IN  IF h.exc # NoExc
                      THEN [conditions |-> conditions,
                            current_operator |-> current_operator, exc |-> h.exc]
                      ELSE ConvertLoopFlat(condition_list, i + 3,
                                           Append(conditions, h.leaf), current_operator)

\* The while loop of convert_to_nested_format from index i (0-based).
RECURSIVE ConvertLoop(_, _, _, _)
ConvertLoop(condition_list, i, conditions, current_operator) ==
    IF i >= Len(condition_list)
    THEN [conditions |-> conditions, current_operator |-> current_operator,
          exc |-> NoExc]
    ELSE LET token == condition_list[i + 1]
         IN  IF token.t # "str"
             THEN [conditions |-> conditions, current_operator |-> current_operator,
                   exc |-> "AttributeError"]
             ELSE IF Upper(token.s) \in {"AND", "OR"}
             THEN ConvertLoop(condition_list, i + 1,
                      IF current_operator # "" /\ conditions # <<>>
                      THEN <<Node(current_operator, conditions)>> ELSE conditions,
                      Upper(token.s))
             ELSE LET h == handle_condition(PySlice(condition_list, i, i + 3))
                  IN  IF h.exc # NoExc
                      THEN [conditions |-> conditions,
                            current_operator |-> current_operator, exc |-> h.exc]
                      ELSE ConvertLoop(condition_list, i + 3,
                                       Append(conditions, h.leaf), current_operator)

\* convert_to_nested_format(condition_list)
convert_to_nested_format(condition_list) ==
    LET r == ConvertLoop(condition_list, 0, <<>>, "")
    IN  IF r.exc # NoExc THEN [exc |-> r.exc, tree |-> <<>>]
        ELSE IF r.current_operator # ""
        THEN [exc |-> NoExc, tree |-> Node(r.current_operator, r.conditions)]
        ELSE IF r.conditions = <<>> THEN [exc |-> "IndexError", tree |-> <<>>]
        ELSE [exc |-> NoExc, tree |-> r.conditions[1]]

\* agg_pattern.match(item): the groups (func, field), or <<>> for no match.
AggMatch(item) ==
    CASE item = "COUNT(a)" -> <<"COUNT", "a">>
      [] item = "MAX(a)" -> <<"MAX", "a">>
      [] item = "SUM(a)" -> <<"SUM", "a">>
      [] OTHER -> <<>>

\* func.lower()
FuncLower(func) ==
    CASE func = "COUNT" -> "count"
      [] func = "MAX" -> "max"
      [] func = "SUM" -> "sum"

\* parse_aggregation_query(input_list): a later call on the same field
\* replaces the earlier one in targets.
RECURSIVE AggLoop(_, _, _)
AggLoop(input_list, group_key, targets) ==
    IF input_list = <<>> THEN [group_key |-> group_key, targets |-> targets]
    ELSE LET m == AggMatch(Head(input_list))
         IN  IF m # <<>>
             THEN AggLoop(Tail(input_list), group_key,
                          [f \in DOMAIN targets \cup {m[2]} |->
                             IF f = m[2] THEN FuncLower(m[1]) ELSE targets[f]])
             ELSE AggLoop(Tail(input_list), Append(group_key, Head(input_list)),
                          targets)

parse_aggregation_query(input_list) == AggLoop(input_list, <<>>, <<>>)

----------------------------------------------------------------------------
(* Projection: select_record_fields and the generator select_fields.       *)

CanSelect(record, fields) ==
    fields = <<"*">> \/ \A i \in DOMAIN fields : fields[i] \in DOMAIN record

\* record if fields == ['*'] else {field: record[field] for field in fields}
select_record_fields(record, fields) ==
    IF fields = <<"*">> THEN record
    ELSE [f \in {fields[i] : i \in DOMAIN fields} |-> record[f]]

\* The rows a projection loop yields before it ends or raises KeyError.
RECURSIVE SelectLoop(_, _, _)
SelectLoop(lines, fields, rows) ==
    IF lines = <<>> THEN [rows |-> rows, exc |-> NoExc]
    ELSE LET item == JsonLoads(Head(lines))
         IN  IF ~CanSelect(item, fields) THEN [rows |-> rows, exc |-> "KeyError"]
             ELSE SelectLoop(Tail(lines), fields,
                             Append(rows, select_record_fields(item, fields)))

\* select_fields(temp_file, fields) with last_operation=True, run to its end:
\* the scratch file it opens is closed and never removed.
select_fields(fs, temp_file, fields) ==
    LET created == NamedTemporaryFile(fs)
    IN  IF temp_file \notin DOMAIN fs.files
        THEN [fs |-> created, rows |-> <<>>, exc |-> "FileNotFoundError"]
        ELSE LET opened == OpenRead(created, temp_file)
                 loop == SelectLoop(opened.files[temp_file], fields, <<>>)
             IN  IF loop.exc # NoExc
                 THEN [fs |-> opened, rows |-> loop.rows, exc |-> loop.exc]
                 ELSE [fs |-> Remove(opened, temp_file), rows |-> loop.rows,
                       exc |-> NoExc]

\* save_json_items_to_tempfile(input_file_path) for partition file n with
\* the given items.
save_json_items_to_tempfile(fs, path, n, items) ==
    LET opened == [fs EXCEPT !.log = Append(fs.log, Ev("open", path, n))]
        created == NamedTemporaryFile(opened)
    IN  [fs |-> WriteLines(created, opened.next, DumpAll(items)),
         name |-> opened.next]

----------------------------------------------------------------------------
(* Inputs.                                                                 *)

SeqsUpTo(U, n) == UNION {[1..m -> U] : m \in 0..n}

\* Every way to cut the sequence X into p consecutive pieces (empty ones
\* included), and into at most P pieces.
CutsOf(n, p) ==
    {c \in [0..p -> 0..n] :
        c[0] = 0 /\ c[p] = n /\ \A i \in 1..p : c[i - 1] <= c[i]}

SplitsOf(X, p) ==
    {[i \in 1..p |-> SubSeq(X, c[i - 1] + 1, c[i])] : c \in CutsOf(Len(X), p)}

AllSplits(X, P) == UNION {SplitsOf(X, p) : p \in 0..P}

RECURSIVE Concat(_)
Concat(seqs) == IF seqs = <<>> THEN <<>> ELSE Head(seqs) \o Concat(Tail(seqs))

NoParse == [columns |-> <<>>]

\* The variables of execute_query while a single stage is under test.
ExecIdle ==
    /\ metadata = <<>>
    /\ data = <<>>
    /\ query = <<>>
    /\ parsed = NoParse
    /\ intermediate_results = <<>>
    /\ converted_conditions = <<>>
    /\ acc = <<>>
    /\ k = 0
    /\ out = <<>>
    /\ msg = <<>>
    /\ exc = NoExc

execVars == <<metadata, data, query, parsed, intermediate_results,
              converted_conditions, acc, k, out, msg, exc>>

\* Records handed to the filter: the three of the spec's scenario A, one
\* without the field a, one whose a is null, one whose a is a string.
FilterRows ==
    {[a |-> I(1), b |-> S("x")], [a |-> I(5), b |-> S("y")],
     [a |-> I(3), b |-> S("x")], [b |-> S("y")],
     [a |-> Null, b |-> S("x")], [a |-> S("x"), b |-> I(3)]}

FilterLeaves ==
    {Leaf(f, c, v) : f \in {"a", "b"}, c \in ConditionNames, v \in {I(2), S("xy")}}

NodeLeaves == {Leaf("a", "gt", I(2)), Leaf("b", "eq", S("x")), Leaf("a", "ne", I(3))}

\* Well-formed trees: every leaf, AND / OR over up to two leaves, and the
\* nested tree of the docstring of filter_by_values.
WellFormedTrees ==
    FilterLeaves
    \cup {Node(o, cs) : o \in {"AND", "OR"}, cs \in SeqsUpTo(NodeLeaves, 2)}
    \cup {Node("and", <<Leaf("a", "gt", I(1)),
                        Node("or", <<Leaf("b", "eq", S("x")),
                                     Leaf("a", "lt", I(5))>>)>>)}

\* Trees the evaluator rejects: an unknown comparison, an unknown connective.
MalformedTrees ==
    {Leaf("a", "like", S("x")), Node("xor", <<Leaf("a", "gt", I(2))>>)}

----------------------------------------------------------------------------
(* SpecFilter: filter_by_values on one temporary file, then on its result. *)

InitFilter ==
    /\ ExecIdle
    /\ \E X \in SeqsUpTo(FilterRows, MaxLen) :
       \E C \in WellFormedTrees \cup MalformedTrees :
          /\ tmp = (1 :> DumpAll(X))
          /\ call = [temp_file |-> 1, conditions |-> C, input |-> X]
    /\ nextTmp = 2
    /\ fslog = <<>>
    /\ pc = "filter_by_values"
    /\ ret = <<>>

\* One call of filter_by_values: on the input file, then on the file the
\* first call returned.
FilterCall ==
    /\ pc = "filter_by_values"
    /\ Len(ret) < 2
    /\ ret # <<>> => ret[Len(ret)].exc = NoExc
    /\ LET temp_file == IF ret = <<>> THEN call.temp_file ELSE ret[Len(ret)].name
           r == filter_by_values(FsNow, temp_file, call.conditions)
       IN  /\ tmp' = r.fs.files
           /\ nextTmp' = r.fs.next
           /\ fslog' = r.fs.log
           /\ ret' = Append(ret, [name |-> r.name, exc |-> r.exc,
                                  lines |-> IF r.exc = NoExc
                                            THEN r.fs.files[r.name] ELSE <<>>])
    /\ UNCHANGED <<execVars, pc, call>>

NextFilter == FilterCall

SpecFilter == InitFilter /\ [][NextFilter]_vars

\* What a condition tree says of a record: a leaf is its comparison, AND is
\* every child, OR is some child.
RECURSIVE TreeTrue(_, _)
TreeTrue(item, c) ==
    IF "operator" \in DOMAIN c
    THEN IF Upper(c.operator) = "AND"
         THEN \A i \in DOMAIN c.conditions : TreeTrue(item, c.conditions[i])
         ELSE \E i \in DOMAIN c.conditions : TreeTrue(item, c.conditions[i])
    ELSE evaluate_condition(item, c) = "true"

Satisfying(X, C) == {i \in 1..Len(X) : TreeTrue(X[i], C)}

\* The index in X of the j-th record that satisfies C.
NthSatisfying(X, C, j) ==
    CHOOSE i \in Satisfying(X, C) :
        Cardinality({m \in Satisfying(X, C) : m <= i}) = j

IsFilterOf(Y, X, C) ==
    /\ Len(Y) = Cardinality(Satisfying(X, C))
    /\ \A j \in 1..Len(Y) : Y[j] = X[NthSatisfying(X, C, j)]

\* C6: for a well-formed condition tree, the file filter_by_values returns
\* holds exactly the records of its input that satisfy the tree, each once
\* and in input order.
C6_FilterIsSubsequence ==
    (pc = "filter_by_values" /\ ret # <<>> /\ call.conditions \in WellFormedTrees)
    => /\ ret[1].exc = NoExc
       /\ IsFilterOf(LoadAll(ret[1].lines), call.input, call.conditions)

\* Scenario A of the spec: a > 2 keeps the second and third of three records.
C6_Witness ==
    /\ pc = "filter_by_values"
    /\ ret # <<>>
    /\ call.input = <<[a |-> I(1), b |-> S("x")], [a |-> I(5), b |-> S("y")],
                      [a |-> I(3), b |-> S("x")]>>
    /\ call.conditions = Leaf("a", "gt", I(2))
    /\ LoadAll(ret[1].lines) = <<[a |-> I(5), b |-> S("y")], [a |-> I(3), b |-> S("x")]>>

\* C7: filtering the result of filter_by_values again with the same tree
\* returns the same sequence of records.
C7_FilterIdempotent ==
    (pc = "filter_by_values" /\ Len(ret) = 2 /\ ret[2].exc = NoExc)
    => ret[2].lines = ret[1].lines

\* A second pass over a result that kept some records and dropped others.
C7_Witness ==
    /\ pc = "filter_by_values"
    /\ Len(ret) = 2
    /\ ret[2].exc = NoExc
    /\ ret[1].lines # <<>>
    /\ Len(ret[1].lines) < Len(call.input)
    /\ "operator" \in DOMAIN call.conditions

----------------------------------------------------------------------------
(* SpecSort: execute_external_sort over a list of temporary files.         *)

\* Records handed to the sort.  Columns are typed: a holds ints, b strings,
\* c ints; the last record has no c.
SortRows ==
    {[a |-> I(1), b |-> S("x"), c |-> I(2)], [a |-> I(2), b |-> S("y"), c |-> I(1)],
     [a |-> I(1), b |-> S("y"), c |-> I(1)], [a |-> I(3), b |-> S("x")]}

SortKeys ==
    {KeyStr("a"), KeyStr("b"), KeyList(<<"a">>), KeyList(<<"a", "c">>),
     KeyList(<<"c", "a">>), KeyList(<<"b", "a">>)}

InitSort ==
    /\ ExecIdle
    /\ \E X \in SeqsUpTo(SortRows, MaxSortRows) :
       \E files \in AllSplits(X, MaxSortFiles) :
       \E sort_key \in SortKeys, reverse \in BOOLEAN :
          /\ tmp = [i \in DOMAIN files |-> DumpAll(files[i])]
          /\ nextTmp = Len(files) + 1
          /\ call = [input_files |-> [i \in DOMAIN files |-> i],
                     sort_key |-> sort_key, reverse |-> reverse,
                     input |-> files]
    /\ fslog = <<>>
    /\ pc = "execute_external_sort"
    /\ ret = <<>>

SortCall ==
    /\ pc = "execute_external_sort"
    /\ ret = <<>>
    /\ LET r == execute_external_sort(FsNow, call.input_files, call.sort_key,
                                      call.reverse)
       IN  /\ tmp' = r.fs.files
           /\ nextTmp' = r.fs.next
           /\ fslog' = r.fs.log
           /\ ret' = <<[name |-> r.name, exc |-> r.exc,
                        lines |-> IF r.exc = NoExc THEN r.fs.files[r.name] ELSE <<>>]>>
    /\ UNCHANGED <<execVars, pc, call>>

NextSort == SortCall

SpecSort == InitSort /\ [][NextSort]_vars

\* k1 <= k2 in the lexicographic order of key tuples.
KeyLeq(k1, k2) ==
    \/ k1 = k2
    \/ \E i \in DOMAIN k1 :
          /\ \A j \in 1..(i - 1) : k1[j] = k2[j]
          /\ k1[i] # k2[i]
          /\ IF k1[i].t = "int" THEN k1[i].n < k2[i].n
             ELSE StrRank(k1[i].s) < StrRank(k2[i].s)

Occurrences(seq, x) == Cardinality({i \in DOMAIN seq : seq[i] = x})

IsPermutation(Y, X) ==
    /\ Len(Y) = Len(X)
    /\ \A i \in DOMAIN X : Occurrences(Y, X[i]) = Occurrences(X, X[i])

IsOrdered(Y, sort_key, reverse) ==
    \A i \in 1..(Len(Y) - 1) :
        IF reverse THEN KeyLeq(KeyOf(Y[i + 1], sort_key), KeyOf(Y[i], sort_key))
        ELSE KeyLeq(KeyOf(Y[i], sort_key), KeyOf(Y[i + 1], sort_key))

SortedAndPermuted ==
    /\ ret[1].exc = NoExc
    /\ IsOrdered(LoadAll(ret[1].lines), call.sort_key, call.reverse)
    /\ IsPermutation(LoadAll(ret[1].lines), Concat(call.input))

\* Every input record carries every field of the sort key.
InputHasKey ==
    \A i \in DOMAIN Concat(call.input) : HasKey(Concat(call.input)[i], call.sort_key)

\* Every sort-key value of the input is a number.
InputKeyNumeric ==
    \A i \in DOMAIN Concat(call.input) :
        \A f \in DOMAIN call.sort_key.fields :
            Get(Concat(call.input)[i], call.sort_key.fields[f]).t = "int"

\* C4 as claimed: for every list of input files and every sort key, the file
\* execute_external_sort writes is non-decreasing in the key (non-increasing
\* when reverse) and a permutation of the records of all input files.
C4_Claimed ==
    (pc = "execute_external_sort" /\ ret # <<>> /\ InputHasKey)
    => SortedAndPermuted

\* C4 amended: the same, for ascending sorts over typed columns and for
\* descending sorts whose key values are all numbers (the merge negates
\* the key, so a descending sort on a string key raises TypeError).
C4_ExternalSortOrdersAndPermutes ==
    (pc = "execute_external_sort" /\ ret # <<>> /\ InputHasKey
        /\ (call.reverse => InputKeyNumeric))
    => SortedAndPermuted

\* A descending merge of two runs whose records interleave.
C4_Witness ==
    /\ pc = "execute_external_sort"
    /\ ret # <<>>
    /\ ret[1].exc = NoExc
    /\ call.reverse
    /\ call.sort_key = KeyList(<<"a", "c">>)
    /\ Len(call.input) = 2
    /\ call.input[1] # <<>> /\ call.input[2] # <<>>
    /\ LoadAll(ret[1].lines) # Concat(call.input)
    /\ LoadAll(ret[1].lines)[1] \in {call.input[2][i] : i \in DOMAIN call.input[2]}

----------------------------------------------------------------------------
(* SpecAgg: a dataset cut into partitions, partial_aggregate on each,      *)
(* final_aggregate on the partial results.                                 *)

\* Records handed to the aggregation: group field g, target field v holding
\* an int, a string or null, or absent.
AggRows ==
    {[g |-> I(1), v |-> I(1)], [g |-> I(1), v |-> I(2)], [g |-> I(1), v |-> S("x")],
     [g |-> I(1), v |-> Null], [g |-> I(1)], [g |-> I(2), v |-> I(2)]}

InitAgg ==
    /\ ExecIdle
    /\ \E D \in SeqsUpTo(AggRows, MaxAggData) :
       \E partitions \in AllSplits(D, MaxAggParts) :
       \E aggregation \in AggregationNames :
          /\ tmp = [i \in DOMAIN partitions |-> DumpAll(partitions[i])]
          /\ nextTmp = Len(partitions) + 1
          /\ call = [files |-> [i \in DOMAIN partitions |-> i],
                     group_keys |-> <<"g">>,
                     targets |-> [v |-> aggregation],
                     input |-> partitions]
    /\ fslog = <<>>
    /\ pc = "aggregate"
    /\ ret = <<>>

AggregateCall ==
    /\ pc = "aggregate"
    /\ ret = <<>>
    /\ LET r == Aggregate(FsNow, call.files, call.group_keys, call.targets)
       IN  /\ fslog' = r.fs.log
           /\ ret' = <<[rows |-> r.rows, exc |-> r.exc]>>
    /\ UNCHANGED <<execVars, tmp, nextTmp, pc, call>>

NextAgg == AggregateCall

SpecAgg == InitAgg /\ [][NextAgg]_vars

\* The whole dataset aggregated in one pass: one partial result over the
\* concatenation of the partitions, finalised.
SinglePass ==
    LET whole == [files |-> (1 :> DumpAll(Concat(call.input))), next |-> 2,
                  log |-> <<>>]
        r == Aggregate(whole, <<1>>, call.group_keys, call.targets)
    IN  [rows |-> r.rows, exc |-> r.exc]

RowSet(rows) == {rows[i] : i \in DOMAIN rows}

\* C3 as claimed: whenever the single pass over the whole dataset completes,
\* the partial-then-final composition over any partitioning completes too
\* and yields the same row for every group.
C3_Claimed ==
    (pc = "aggregate" /\ ret # <<>> /\ SinglePass.exc = NoExc)
    => /\ ret[1].exc = NoExc
       /\ RowSet(ret[1].rows) = RowSet(SinglePass.rows)
       /\ Len(ret[1].rows) = Len(SinglePass.rows)

----------------------------------------------------------------------------
(* Spec: execute_query(database, query), one action per stage and, where   *)
(* a stage loops over the partitions, per partition.                       *)

METADATA_FILE == "metadata.json"

\* f'data/{database}_{table}_{i}.json', without the number
DataPath(table) == "data/db_" \o table \o "_{i}.json"

\* The records of the collection t, in insertion order: the three records
\* of the spec's scenario A, one without the field a, one more.
ExecRows ==
    <<[a |-> I(1), b |-> S("x")], [a |-> I(5), b |-> S("y")],
      [a |-> I(3), b |-> S("x")], [b |-> S("y")], [a |-> I(2), b |-> S("x")],
      [a |-> I(7), b |-> S("y")]>>

Q(parts) == [closed |-> TRUE, parts |-> parts]

Queries ==
    {Q(<<"GET", "*", "FROM", "t">>),
     Q(<<"get", "a", "from", "t">>),
     Q(<<"GET", "a,", "b", "FROM", "t">>),
     Q(<<"GET", "a", "FROM", "t", "FILTER", "a", ">", "2">>),
     Q(<<"GET", "*", "FROM", "t", "FILTER", "2", "<", "a">>),
     Q(<<"GET", "a", "FROM", "t", "FILTER", "130", "<", "score">>),
     Q(<<"GET", "*", "FROM", "t", "FILTER", "3", ">=", "a">>),
     Q(<<"GET", "*", "FROM", "t", "FILTER", "\"3\"", "<", "a">>),
     Q(<<"GET", "*", "FROM", "t", "FILTER", "b", "=", "\"x\"">>),
     Q(<<"GET", "*", "FROM", "t", "FILTER", "b", "!=", "'x'">>),
     Q(<<"GET", "*", "FROM", "t", "FILTER", "a", ">", "2", "AND", "b", "=", "\"x\"">>),
     Q(<<"GET", "*", "FROM", "t", "FILTER", "a", ">", "3", "and", "b", "=", "\"x\"",
         "OR", "a", "<", "2">>),
     Q(<<"GET", "*", "FROM", "t", "FILTER", "a", ">>", "2">>),
     Q(<<"GET", "*", "FROM", "t", "FILTER", "a", ">">>),
     Q(<<"GET", "*", "FROM", "t", "SORT", "a">>),
     Q(<<"GET", "a", "FROM", "t", "SORT", "a", "DESC">>),
     Q(<<"GET", "*", "FROM", "t", "SORT", "b", "DESC">>),
     Q(<<"GET", "*", "FROM", "t", "SORT", "b,", "a", "asc">>),
     Q(<<"GET", "a", "FROM", "t", "FILTER", "a", ">", "2", "SORT", "a", "LIMIT", "1">>),
     Q(<<"GET", "*", "FROM", "t", "LIMIT", "2">>),
     Q(<<"GET", "b", "FROM", "t", "FILTER", "a", ">", "1", "LIMIT", "1">>),
     Q(<<"GET", "*", "FROM", "t", "LIMIT", "x">>),
     Q(<<"GET", "b,", "COUNT(a)", "FROM", "t", "GROUP", "b">>),
     Q(<<"GET", "b,", "MAX(a)", "FROM", "t", "FILTER", "a", ">", "2", "GROUP", "b">>),
     Q(<<"GET", "b,", "COUNT(a)", "FROM", "t", "GROUP", "b", "SORT", "a_count">>),
     Q(<<"GET", "COUNT(a)", "FROM", "t", "GROUP", "b">>),
     Q(<<"GET", "COUNT(a)", "FROM", "t", "FILTER", "2", "<", "a", "GROUP", "b">>),
     Q(<<"GET", "*", "FROM", "t", "FILTER", "a", ">", "3", "OR", "b", "=", "\"x\"",
         "AND", "a", "<", "2">>),
     Q(<<"GET", "a,", "b,", "COUNT(a)", "FROM", "t", "GROUP", "b">>),
     Q(<<"GET", "*", "FROM", "zz">>),
     Q(<<"GET", "FROM", "t">>),
     Q(<<"GET", "a", "FROM">>),
     Q(<<"*", "FROM", "t">>),
     Q(<<"GET", "a", "t">>),
     Q(<<"SELECT", "a", "IN", "t", "FILTER", "a", ">", "2">>),
     Q(<<"FROM", "t", "SORT", "a", "LIMIT", "2">>),
     [closed |-> FALSE, parts |-> <<>>]}

Init ==
    /\ \E n \in 0..MaxRows :
       \E partitions \in AllSplits(SubSeq(ExecRows, 1, n), MaxParts) :
       \E missing \in 0..Len(partitions) :
          /\ metadata = [c \in {"t"} |-> Len(partitions)]
          /\ data = [i \in DOMAIN partitions \ {missing} |-> partitions[i]]
    /\ query \in Queries
    /\ tmp = <<>>
    /\ nextTmp = 1
    /\ fslog = <<>>
    /\ pc = "start"
    /\ parsed = NoParse
    /\ intermediate_results = <<>>
    /\ converted_conditions = <<>>
    /\ acc = <<>>
    /\ k = 0
    /\ out = <<>>
    /\ msg = <<>>
    /\ exc = NoExc
    /\ call = <<>>
    /\ ret = <<>>

fsVars == <<tmp, nextTmp, fslog>>

SetFs(fs) ==
    /\ tmp' = fs.files
    /\ nextTmp' = fs.next
    /\ fslog' = fs.log

\* `if not columns` that lets every parse result through.
InvalidQueryNever(p) == FALSE

\* `if not columns`: parse_query returned the tuple of Nones, or no column.
InvalidQuery(p) == p.none \/ p.columns = <<>>

\* Lines 162-170: parse the query; "Invalid query" and return when
\* parse_query raises ValueError or yields no columns.
ExecParse ==
    /\ pc = "start"
    /\ LET p == parse_query(query)
       IN  IF p.exc = "ValueError" \/ (p.exc = NoExc /\ InvalidQuery(p))
           THEN /\ msg' = Append(msg, "Invalid query")
                /\ pc' = "returned"
                /\ UNCHANGED <<parsed, exc>>
           ELSE IF p.exc # NoExc
           THEN /\ exc' = p.exc
                /\ pc' = "raised"
                /\ UNCHANGED <<parsed, msg>>
           ELSE /\ parsed' = p
                /\ pc' = "resolve"
                /\ UNCHANGED <<msg, exc>>
    /\ UNCHANGED <<metadata, data, fsVars, query, intermediate_results,
                   converted_conditions, acc, k, out, call, ret>>

\* get_last_file_number: the partition_count of the collection, None (Null)
\* when the metadata has no such collection.
get_last_file_number(collection_name) ==
    IF collection_name \in DOMAIN metadata THEN I(metadata[collection_name]) ELSE Null

\* Lines 172-173: read the metadata; range(1, None + 1) raises TypeError.
ExecResolve ==
    /\ pc = "resolve"
    /\ fslog' = Append(fslog, Ev("open", METADATA_FILE, 0))
    /\ LET file_number == get_last_file_number(parsed.table)
       IN  IF file_number = Null
           THEN /\ exc' = "TypeError"
                /\ pc' = "raised"
                /\ UNCHANGED k
           ELSE /\ pc' = "load"
                /\ k' = 1
                /\ UNCHANGED exc
    /\ UNCHANGED <<metadata, data, tmp, nextTmp, query, parsed,
                   intermediate_results, converted_conditions, acc, out, msg,
                   call, ret>>

\* Line 174 with a copy that consumes its input file.
ExecLoadConsumes ==
    /\ pc = "load"
    /\ k <= metadata[parsed.table]
    /\ IF k \notin DOMAIN data
       THEN /\ exc' = "FileNotFoundError"
            /\ pc' = "raised"
            /\ UNCHANGED <<fsVars, acc, k, data>>
       ELSE LET r == save_json_items_to_tempfile(FsNow, DataPath(parsed.table),
                                                 k, data[k])
            IN  /\ SetFs(r.fs)
                /\ acc' = Append(acc, r.name)
                /\ k' = k + 1
                /\ data' = [i \in DOMAIN data \ {k} |-> data[i]]
                /\ UNCHANGED <<exc, pc>>
    /\ UNCHANGED <<metadata, query, parsed, intermediate_results,
                   converted_conditions, out, msg, call, ret>>

\* Line 174, one input file: save_json_items_to_tempfile.  The list is built
\* before the try block: a missing file ends the call with no cleanup.
ExecLoad ==
    /\ pc = "load"
    /\ k <= metadata[parsed.table]
    /\ IF k \notin DOMAIN data
       THEN /\ exc' = "FileNotFoundError"
            /\ pc' = "raised"
            /\ UNCHANGED <<fsVars, acc, k>>
       ELSE LET r == save_json_items_to_tempfile(FsNow, DataPath(parsed.table),
                                                 k, data[k])
            IN  /\ SetFs(r.fs)
                /\ acc' = Append(acc, r.name)
                /\ k' = k + 1
                /\ UNCHANGED <<exc, pc>>
    /\ UNCHANGED <<metadata, data, query, parsed, intermediate_results,
                   converted_conditions, out, msg, call, ret>>

\* Lines 174-178: the list is complete; inside the try block the conditions,
\* if any, are compiled.
ExecConvert ==
    /\ pc = "load"
    /\ k > metadata[parsed.table]
    /\ intermediate_results' = acc
    /\ acc' = <<>>
    /\ k' = 1
    /\ IF parsed.conditions = <<>>
       THEN /\ pc' = "branch"
            /\ UNCHANGED <<converted_conditions, exc>>
       ELSE LET c == convert_to_nested_format(parsed.conditions)
            IN  IF c.exc # NoExc
                THEN /\ exc' = c.exc
                     /\ pc' = "finally"
                     /\ UNCHANGED converted_conditions
                ELSE /\ converted_conditions' = c.tree
                     /\ pc' = "filter"
                     /\ UNCHANGED exc
    /\ UNCHANGED <<metadata, data, fsVars, query, parsed, out, msg, call, ret>>

\* Line 179, one temporary file: filter_by_values.  intermediate_results is
\* assigned only when the whole comprehension has run.
ExecFilter ==
    /\ pc = "filter"
    /\ k <= Len(intermediate_results)
    /\ LET r == filter_by_values(FsNow, intermediate_results[k], converted_conditions)
       IN  /\ SetFs(r.fs)
           /\ IF r.exc # NoExc
              THEN /\ exc' = r.exc
                   /\ pc' = "finally"
                   /\ UNCHANGED <<acc, k, intermediate_results>>
              ELSE /\ IF k = Len(intermediate_results)
                      THEN /\ intermediate_results' = Append(acc, r.name)
                           /\ acc' = <<>>
                           /\ pc' = "branch"
                      ELSE /\ acc' = Append(acc, r.name)
                           /\ UNCHANGED <<intermediate_results, pc>>
                   /\ k' = k + 1
                   /\ UNCHANGED exc
    /\ UNCHANGED <<metadata, data, query, parsed, converted_conditions, out, msg,
                   call, ret>>

\* Filtering no file at all: the comprehension over the empty list.
ExecFilterNone ==
    /\ pc = "filter"
    /\ intermediate_results = <<>>
    /\ pc' = "branch"
    /\ UNCHANGED <<metadata, data, fsVars, query, parsed, intermediate_results,
                   converted_conditions, acc, k, out, msg, exc, call, ret>>

\* Lines 181-200: the GROUP branch.  final_aggregate returns a list, so
\* open(final_agg) raises TypeError; sort_and_write_chunk is no name of the
\* module, so the SORT variant raises NameError.
ExecGroup ==
    /\ pc = "branch"
    /\ parsed.group_by # <<>>
    /\ pc' = "finally"
    /\ IF \E i \in DOMAIN parsed.group_by : ~Has(parsed.columns, parsed.group_by[i])
       THEN LET i == CHOOSE i \in DOMAIN parsed.group_by :
                        /\ ~Has(parsed.columns, parsed.group_by[i])
                        /\ \A j \in 1..(i - 1) : Has(parsed.columns, parsed.group_by[j])
            IN  /\ msg' = Append(msg, "Column '" \o parsed.group_by[i]
                                      \o "' need to be selected")
                /\ UNCHANGED <<exc, fslog>>
       ELSE LET q == parse_aggregation_query(parsed.columns)
                r == Aggregate(FsNow, intermediate_results, q.group_key, q.targets)
            IN  /\ fslog' = r.fs.log
                /\ exc' = IF r.exc # NoExc THEN r.exc
                          ELSE IF parsed.sort_by # <<>> THEN "NameError"
                          ELSE "TypeError"
                /\ UNCHANGED msg
    /\ UNCHANGED <<metadata, data, tmp, nextTmp, query, parsed,
                   intermediate_results, converted_conditions, acc, k, out,
                   call, ret>>

\* Lines 203-208: execute_external_sort, print the projected rows of the
\* sorted file, remove it.
ExecSort ==
    /\ pc = "branch"
    /\ parsed.group_by = <<>>
    /\ parsed.sort_by # <<>>
    /\ pc' = "finally"
    /\ \E r \in {execute_external_sort(FsNow, intermediate_results,
                                       KeyList(parsed.sort_by), parsed.reverse)} :
          IF r.exc # NoExc
          THEN /\ SetFs(r.fs)
               /\ exc' = r.exc
               /\ UNCHANGED out
          ELSE \E opened \in {OpenRead(r.fs, r.name)} :
               \E loop \in {SelectLoop(opened.files[r.name], parsed.columns, <<>>)} :
                  /\ out' = out \o loop.rows
                  /\ exc' = loop.exc
                  /\ SetFs(IF loop.exc # NoExc THEN opened
                           ELSE Remove(opened, r.name))
    /\ UNCHANGED <<metadata, data, query, parsed, intermediate_results,
                   converted_conditions, acc, k, msg, call, ret>>

\* Line 210: the list of select_fields generators; nothing runs yet.
ExecSelectAll ==
    /\ pc = "branch"
    /\ parsed.group_by = <<>>
    /\ parsed.sort_by = <<>>
    /\ pc' = "select"
    /\ k' = 1
    /\ UNCHANGED <<metadata, data, fsVars, query, parsed, intermediate_results,
                   converted_conditions, acc, out, msg, exc, call, ret>>

\* Lines 211-213, one generator: every row it yields is printed.
ExecSelect ==
    /\ pc = "select"
    /\ k <= Len(intermediate_results)
    /\ LET r == select_fields(FsNow, intermediate_results[k], parsed.columns)
       IN  /\ SetFs(r.fs)
           /\ out' = out \o r.rows
           /\ exc' = r.exc
           /\ IF r.exc # NoExc
              THEN pc' = "finally" /\ UNCHANGED k
              ELSE k' = k + 1 /\ UNCHANGED pc
    /\ UNCHANGED <<metadata, data, query, parsed, intermediate_results,
                   converted_conditions, acc, msg, call, ret>>

\* The files of names that exist, removed in order.
RECURSIVE RemoveExisting(_, _)
RemoveExisting(fs, names) ==
    IF names = <<>> THEN fs
    ELSE RemoveExisting(IF Head(names) \in DOMAIN fs.files
                        THEN Remove(fs, Head(names)) ELSE fs,
                        Tail(names))

\* Lines 215-219: the finally block, then the return or the exception.
ExecFinally ==
    /\ \/ pc = "finally"
       \/ pc = "select" /\ k > Len(intermediate_results)
    /\ SetFs(RemoveExisting(FsNow, intermediate_results))
    /\ pc' = IF exc = NoExc THEN "returned" ELSE "raised"
    /\ UNCHANGED <<metadata, data, query, parsed, intermediate_results,
                   converted_conditions, acc, k, out, msg, exc, call, ret>>

Next ==
    \/ ExecParse
    \/ ExecResolve
    \/ ExecLoad
    \/ ExecConvert
    \/ ExecFilter
    \/ ExecFilterNone
    \/ ExecGroup
    \/ ExecSort
    \/ ExecSelectAll
    \/ ExecSelect
    \/ ExecFinally

Spec == Init /\ [][Next]_vars

----------------------------------------------------------------------------
(* Properties of execute_query.                                            *)

\* The records of the collection in partition order then record order, when
\* every partition file exists.
AllRecords == Concat([i \in 1..metadata["t"] |-> data[i]])

\* The records that pass the query's FILTER, in that order.
Filtered ==
    IF parsed.conditions = <<>> THEN AllRecords
    ELSE LET Passes(record) == TreeTrue(record, converted_conditions)
         IN  SelectSeq(AllRecords, Passes)

Min(a, b) == IF a <= b THEN a ELSE b

\* C1: when execute_query has returned normally for a valid query, no
\* temporary file of that execution remains.
C1_NoFilesAfterReturn ==
    (pc = "returned" /\ parsed # NoParse) => DOMAIN tmp = {}

\* C2: when execute_query has exited with an exception, no temporary file of
\* that execution remains.
C2_NoFilesAfterFailure ==
    (pc = "raised" /\ nextTmp > 1) => DOMAIN tmp = {}

\* C5: a query with LIMIT n emits at most n rows; unsorted and ungrouped,
\* they are the first n rows that pass the filter.
C5_LimitCaps ==
    (pc = "returned" /\ parsed # NoParse /\ parsed.limit # Null)
    => /\ Len(out) <= parsed.limit.n
       /\ (parsed.sort_by = <<>> /\ parsed.group_by = <<>>)
          => out = [i \in 1..Min(parsed.limit.n, Len(Filtered)) |->
                      select_record_fields(Filtered[i], parsed.columns)]

NoGetOrNoFrom ==
    \/ ~Has(LowerAll(query.parts), "get")
    \/ ~Has(LowerAll(query.parts), "from")

\* C8: a query without the GET keyword or without the FROM keyword makes
\* execute_query print "Invalid query" and return, with no row printed, no
\* metadata or partition file opened and no temporary file created.
C8_InvalidQueryTouchesNothing ==
    (NoGetOrNoFrom /\ pc # "start")
    => /\ pc = "returned"
       /\ msg = <<"Invalid query">>
       /\ out = <<>>
       /\ fslog = <<>>
       /\ nextTmp = 1
       /\ DOMAIN tmp = {}

\* A query with FROM, SORT and LIMIT but no GET, on a collection that has a
\* partition file, has been answered.
C8_Witness ==
    /\ pc = "returned"
    /\ query.parts = <<"FROM", "t", "SORT", "a", "LIMIT", "2">>
    /\ msg = <<"Invalid query">>
    /\ 1 \in DOMAIN data
    /\ data[1] # <<>>

\* The operator the spec gives a literal-first comparison.
Flipped(symbol) ==
    CASE symbol = "<" -> "gt"
      [] symbol = ">" -> "lt"
      [] symbol = "<=" -> "gte"
      [] symbol = ">=" -> "lte"
      [] OTHER -> operator_mapping(symbol)

\* The FILTER clause is one comparison: integer literal, operator, field.
LiteralFirst ==
    /\ query.closed
    /\ Len(query.parts) = 8
    /\ Lower(query.parts[5]) = "filter"
    /\ query.parts[6] \in IntTokens
    /\ query.parts[7] \in {"<", ">", "<=", ">=", "=", "!="}

\* C9: once the conditions of a literal-first comparison are compiled, they
\* are the leaf {target: field, condition: flipped operator, value: literal}.
C9_LiteralFirstIsFlipped ==
    (LiteralFirst /\ pc \in {"filter", "branch", "select", "finally"})
    => /\ exc = NoExc
       /\ converted_conditions =
             Leaf(query.parts[8], Flipped(query.parts[7]), I(IntOf(query.parts[6])))

\* The group-key tuples of the records that pass the filter.
GroupKeys ==
    {[i \in DOMAIN parsed.group_by |-> Get(Filtered[j], parsed.group_by[i])] :
        j \in 1..Len(Filtered)}

\* The aggregation calls of the GET list, as the output fields they name.
AggregationFields ==
    LET q == parse_aggregation_query(parsed.columns)
    IN  {AggKey(t, q.targets[t]) : t \in DOMAIN q.targets}

\* C10: when the GROUP branch of a query whose group fields are all in the
\* GET list has run, one row per distinct group key has been printed, each
\* with _key and one field per aggregation call.
C10_OneRowPerGroup ==
    (/\ pc = "finally"
     /\ parsed.group_by # <<>>
     /\ \A i \in DOMAIN parsed.group_by : Has(parsed.columns, parsed.group_by[i])
     /\ parsed.conditions = <<>> \/ converted_conditions # <<>>)
    => /\ Len(out) = Cardinality(GroupKeys)
       /\ \A i \in DOMAIN out :
             {"_key"} \cup AggregationFields \subseteq DOMAIN out[i]

\* Some field of the GROUP clause is not among the columns of GET, and the
\* first such field.
GroupFieldUnselected ==
    /\ parsed # NoParse
    /\ \E i \in DOMAIN parsed.group_by : ~Has(parsed.columns, parsed.group_by[i])

FirstUnselected ==
    parsed.group_by[CHOOSE i \in DOMAIN parsed.group_by :
        /\ ~Has(parsed.columns, parsed.group_by[i])
        /\ \A j \in 1..(i - 1) : Has(parsed.columns, parsed.group_by[j])]

\* No file of intermediate_results was opened for reading: neither
\* partial_aggregate nor any later stage ran on the working set.
NoAggregation ==
    \A i \in DOMAIN fslog :
        ~(/\ fslog[i].op = "open"
          /\ fslog[i].path = ""
          /\ \E j \in DOMAIN intermediate_results :
                intermediate_results[j] = fslog[i].n)

\* C11: when execute_query has ended on a query with a GROUP field that is
\* not in the GET list, it has printed the "need to be selected" message for
\* it, has aggregated nothing and has printed no row.
C11_UnselectedGroupRejected ==
    (GroupFieldUnselected /\ pc \in {"returned", "raised"})
    => /\ msg = <<"Column '" \o FirstUnselected \o "' need to be selected">>
       /\ out = <<>>
       /\ NoAggregation

\* The FILTER clause as parse_query leaves it: comparisons of three tokens
\* joined by connectives.
ClauseSize == (Len(parsed.conditions) + 1) \div 4

ClauseLeaf(j) ==
    handle_condition(SubSeq(parsed.conditions, 4 * j - 3, 4 * j - 1)).leaf

ClauseOperator(j) == Upper(parsed.conditions[4 * j].s)

\* A flat clause of two or more connectives, not all the same.
MixedClause ==
    /\ parsed # NoParse
    /\ Len(parsed.conditions) >= 11
    /\ Len(parsed.conditions) % 4 = 3
    /\ \A j \in 1..(ClauseSize - 1) :
          /\ parsed.conditions[4 * j].t = "str"
          /\ ClauseOperator(j) \in {"AND", "OR"}
    /\ \E i, j \in 1..(ClauseSize - 1) : ClauseOperator(i) # ClauseOperator(j)

LeafHolds(record, j) == evaluate_condition(record, ClauseLeaf(j)) = "true"

\* The last connective of the clause, applied to all its comparisons.
LastOperatorUniform(record) ==
    IF ClauseOperator(ClauseSize - 1) = "AND"
    THEN \A j \in 1..ClauseSize : LeafHolds(record, j)
    ELSE \E j \in 1..ClauseSize : LeafHolds(record, j)

\* The connectives applied from left to right: ((c1 o1 c2) o2 c3) ...
RECURSIVE LeftToRightUpTo(_, _)
LeftToRightUpTo(record, j) ==
    IF j = 1 THEN LeafHolds(record, 1)
    ELSE IF ClauseOperator(j - 1) = "AND"
    THEN LeftToRightUpTo(record, j - 1) /\ LeafHolds(record, j)
    ELSE LeftToRightUpTo(record, j - 1) \/ LeafHolds(record, j)

LeftToRight(record) == LeftToRightUpTo(record, ClauseSize)

\* An unsorted, ungrouped GET * query with a mixed clause has returned.
MixedClauseAnswered ==
    /\ pc = "returned"
    /\ MixedClause
    /\ parsed.columns = <<"*">>
    /\ parsed.sort_by = <<>>
    /\ parsed.group_by = <<>>

C13_MissingFieldIsFalse ==
    (pc = "filter_by_values" /\ ret # <<>> /\ call.conditions \in FilterLeaves)
    => /\ ret[1].exc = NoExc
       /\ \A i \in DOMAIN ret[1].lines :
             call.conditions.target \in DOMAIN JsonLoads(ret[1].lines[i])
       /\ \A i \in DOMAIN call.input :
             call.conditions.target \notin DOMAIN call.input[i]
             => evaluate_condition(call.input[i], call.conditions) = "false"

\* `a ne 2` on a record without a and a record whose a is 1: only the
\* second is kept.
C13_Witness ==
    /\ pc = "filter_by_values"
    /\ ret # <<>>
    /\ call.conditions = Leaf("a", "ne", I(2))
    /\ call.input = <<[b |-> S("y")], [a |-> I(1), b |-> S("x")]>>
    /\ LoadAll(ret[1].lines) = <<[a |-> I(1), b |-> S("x")]>>

\* C14: no step of execute_query changes the metadata or a partition file.
C14_DurableStateUnchanged ==
    [][metadata' = metadata /\ data' = data]_vars

\* A query has read the metadata and two partition files and printed rows.
C14_Witness ==
    /\ pc = "returned"
    /\ out # <<>>
    /\ \E i \in DOMAIN fslog : fslog[i] = Ev("open", METADATA_FILE, 0)
    /\ \E i \in DOMAIN fslog : fslog[i] = Ev("open", DataPath("t"), 2)

----------------------------------------------------------------------------
(* SpecDb: the relational store of src/database.py.  metadata is            *)
(* Database.tables (table file name -> table metadata, saved to the        *)
(* metadata file), data the files of table_folder (file name -> header     *)
(* and rows; a CSV cell is a string).                                      *)

MaxDbCalls == 3      \* insert and update calls in a behaviour of SpecDb

\* What writer.writerow stores for a value: str(value).
Str(v) ==
    IF v.t = "int"
    THEN CASE v.n = 1 -> "1" [] v.n = 2 -> "2" [] v.n = 9 -> "9"
    ELSE v.s

\* s.isdigit()
IsDigit(s) == s \in {"1", "2", "9"}

\* add_extension(table_name)
add_extension(table_name) ==
    IF table_name \in {"p.csv", "c.csv"} THEN table_name ELSE table_name \o ".csv"

\* referenced_table.replace(".csv", "")
ReplaceCsv(table_name) ==
    CASE table_name = "p.csv" -> "p"
      [] table_name = "c.csv" -> "c"
      [] OTHER -> table_name

\* validate_data_type(value, expected_data_type) for a non-negative int or
\* a str value; the tables of the model have INT columns only.
validate_data_type(value, expected_data_type) ==
    IF expected_data_type = "INT"
    THEN value.t = "int" \/ IsDigit(value.s)
    ELSE TRUE

CsvFile(header, rows) == [header |-> header, rows |-> rows]

\* list(table_metadata["columns"].keys())
Headers(table_metadata) ==
    [i \in DOMAIN table_metadata.columns |-> table_metadata.columns[i][1]]

ColumnType(table_metadata, header) ==
    LET i == CHOOSE i \in DOMAIN table_metadata.columns :
                 table_metadata.columns[i][1] = header
    IN  table_metadata.columns[i][2]

\* The row csv.DictWriter writes for a dict: str of each value, '' for a
\* column the dict lacks.
CsvRow(headers, row) ==
    [h \in {headers[i] : i \in DOMAIN headers} |->
        IF h \in DOMAIN row THEN Str(row[h]) ELSE ""]

\* The outcome of a Database call: the folder and the tables after it, the
\* value returned ("True", "False", "None") and the message printed.
DbResult(tables, files, value, message) ==
    [tables |-> tables, files |-> files, ret |-> value, msg |-> message]

\* create_table(table_name, columns, primary_key, unique_constraints,
\* foreign_keys); None is written "" and an absent list <<>>.
create_table(tables, files, table_name, columns, primary_key, unique_constraints, foreign_keys) ==
    LET name == add_extension(table_name)
        table_metadata == [table_name |-> name, columns |-> columns,
                           primary_key |-> primary_key,
                           unique_constraints |-> unique_constraints,
                           foreign_keys |-> foreign_keys]
    IN  IF name \in DOMAIN tables
        THEN DbResult(tables, files, "False", "Table '" \o name \o "' already exists.")
        ELSE DbResult([t \in DOMAIN tables \cup {name} |->
                         IF t = name THEN table_metadata ELSE tables[t]],
                      [f \in DOMAIN files \cup {name} |->
                         IF f = name THEN CsvFile(Headers(table_metadata), <<>>)
                         ELSE files[f]],
                      "True", "Table '" \o name \o "' created successfully.")

\* A file written (created or truncated) in the folder, and one removed.
WriteFile(files, name, content) ==
    [f \in DOMAIN files \cup {name} |-> IF f = name THEN content ELSE files[f]]

RemoveFile(files, name) == [f \in DOMAIN files \ {name} |-> files[f]]

\* any(row[column] == value for row in rows): a cell is a str, so it equals
\* a str value of the same text and never an int value.
AnyRowEquals(rows, column, value) ==
    \E i \in DOMAIN rows : S(rows[i][column]) = value

TEMP_INSERT_FILE == "temp_insert_file.csv"
TEMP_UPDATE_FILE == "temp_update_file.csv"

\* The loop of insert over foreign_keys (a list of {column: referenced
\* table}): ret is "False" when the loop returns, else check is the value of
\* foreign_key_check after it.  self.tables.get looks the referenced table
\* up under its name without extension.
RECURSIVE InsertForeignKeys(_, _, _, _, _)
InsertForeignKeys(tables, files, foreign_keys, row, check) ==
    IF foreign_keys = <<>> THEN [ret |-> "", check |-> check]
    ELSE LET foreign_key == Head(foreign_keys)
             referenced_table == ReplaceCsv(foreign_key.referenced_table)
         IN  IF referenced_table \notin DOMAIN tables
             THEN InsertForeignKeys(tables, files, Tail(foreign_keys), row, check)
             ELSE IF tables[referenced_table].primary_key = ""
             THEN [ret |-> "False", check |-> check]
             ELSE IF referenced_table \o ".csv" \notin DOMAIN files
             THEN [ret |-> "FileNotFoundError", check |-> check]
             ELSE InsertForeignKeys(tables, files, Tail(foreign_keys), row,
                      check /\ AnyRowEquals(files[referenced_table \o ".csv"].rows,
                                            tables[referenced_table].primary_key,
                                            Get(row, foreign_key.column)))

\* insert(table_name, data)
insert(tables, files, name, row) ==
    LET table_name == add_extension(name)
    IN  IF table_name \notin DOMAIN tables
        THEN DbResult(tables, files, "False",
                      "Error: Table '" \o table_name \o "' does not exist.")
        ELSE
        LET table_metadata == tables[table_name]
            headers == Headers(table_metadata)
            primary_key == table_metadata.primary_key
            unique_constraints == table_metadata.unique_constraints
            foreign_keys == table_metadata.foreign_keys
            existing_data == files[table_name].rows
            opened == WriteFile(files, TEMP_INSERT_FILE, CsvFile(headers, <<>>))
            fk == InsertForeignKeys(tables, files, foreign_keys, row, TRUE)
        IN  IF \E h \in DOMAIN row :
                   ~validate_data_type(row[h], ColumnType(table_metadata, h))
            THEN DbResult(tables, files, "False", "Error: Data type violation.")
            ELSE IF primary_key # ""
                    /\ AnyRowEquals(existing_data, primary_key, Get(row, primary_key))
            THEN DbResult(tables, opened, "False",
                          "Error: Primary key constraint violated for column '"
                          \o primary_key \o "'.")
            ELSE IF \E i \in DOMAIN unique_constraints :
                       AnyRowEquals(existing_data, unique_constraints[i],
                                    Get(row, unique_constraints[i]))
            THEN DbResult(tables, opened, "False", "Error: Unique constraint violated.")
            ELSE IF fk.ret = "False"
            THEN DbResult(tables, opened, "False",
                          "Error: Referenced table has no primary key.")
            ELSE IF fk.ret # ""
            THEN DbResult(tables, opened, fk.ret, "")
            ELSE IF foreign_keys # <<>> /\ ~fk.check
            THEN DbResult(tables, opened, "False",
                          "Error: Foreign key constraint violated.")
            ELSE DbResult(tables,
                          WriteFile(RemoveFile(files, TEMP_INSERT_FILE), table_name,
                                    CsvFile(headers,
                                            Append(existing_data, CsvRow(headers, row)))),
                          "None",
                          "Data inserted into table '" \o table_name \o "' successfully.")

\* The foreign-key loop update runs for a matching row.
RECURSIVE UpdateForeignKeys(_, _, _, _, _)
UpdateForeignKeys(tables, files, foreign_keys, new_data, check) ==
    IF foreign_keys = <<>> THEN [ret |-> "", check |-> check]
    ELSE LET foreign_key == Head(foreign_keys)
             referenced == foreign_key.referenced_table \o ".csv"
         IN  IF referenced \notin DOMAIN tables
             THEN [ret |-> "KeyError", check |-> check]
             ELSE IF tables[referenced].primary_key = ""
             THEN [ret |-> "False", check |-> check]
             ELSE IF foreign_key.column \notin DOMAIN new_data
             THEN UpdateForeignKeys(tables, files, Tail(foreign_keys), new_data, check)
             ELSE IF referenced \notin DOMAIN files
             THEN [ret |-> "FileNotFoundError", check |-> check]
             ELSE UpdateForeignKeys(tables, files, Tail(foreign_keys), new_data,
                      check /\ AnyRowEquals(files[referenced].rows,
                                            tables[referenced].primary_key,
                                            new_data[foreign_key.column]))

\* row.update(new_data), as the writer stores it.
UpdatedRow(row, new_data) ==
    [h \in DOMAIN row |-> IF h \in DOMAIN new_data THEN Str(new_data[h]) ELSE row[h]]

\* The loop of update over the rows read: written are the rows of the
\* temporary file so far.
RECURSIVE UpdateLoop(_, _, _, _, _, _, _)
UpdateLoop(tables, files, foreign_keys, rows, column, value, st) ==
    IF rows = <<>> THEN st
    ELSE LET row == Head(rows)
         IN  IF row[column] # Str(value)
             THEN UpdateLoop(tables, files, foreign_keys, Tail(rows), column, value,
                             [st EXCEPT !.written = Append(st.written, row)])
             ELSE LET fk == UpdateForeignKeys(tables, files, foreign_keys,
                                              st.new_data, st.check)
                  IN  IF fk.ret # "" THEN [st EXCEPT !.ret = fk.ret]
                      ELSE UpdateLoop(tables, files, foreign_keys, Tail(rows), column,
                               value,
                               IF fk.check
                               THEN [st EXCEPT !.written =
                                        Append(st.written, UpdatedRow(row, st.new_data)),
                                               !.updated = TRUE]
                               ELSE [st EXCEPT !.check = FALSE])

\* update(table_name, {column: value}, new_data)
update(tables, files, name, column, value, new_data) ==
    LET table_name == add_extension(name)
    IN  IF table_name \notin DOMAIN tables
        THEN DbResult(tables, files, "False",
                      "Error: Table '" \o table_name \o "' does not exist.")
        ELSE
        LET table_metadata == tables[table_name]
            headers == Headers(table_metadata)
            st == UpdateLoop(tables, files, table_metadata.foreign_keys,
                             files[table_name].rows, column, value,
                             [written |-> <<>>, check |-> TRUE, updated |-> FALSE,
                              ret |-> "", new_data |-> new_data])
            written == WriteFile(files, TEMP_UPDATE_FILE, CsvFile(headers, st.written))
        IN  IF \A i \in DOMAIN headers : headers[i] # column
            THEN DbResult(tables, files, "False",
                          "Error: Column '" \o column \o "' does not exist in the table.")
            ELSE IF st.ret = "False"
            THEN DbResult(tables, written, "False",
                          "Error: Referenced table has no primary key.")
            ELSE IF st.ret # ""
            THEN DbResult(tables, written, st.ret, "")
            ELSE IF ~st.check
            THEN DbResult(tables, written, "False",
                          "Error: Foreign key constraint violated. Update not performed.")
            ELSE IF ~st.updated
            THEN DbResult(tables, written, "False",
                          "Error: No data matched the condition for update.")
            ELSE DbResult(tables,
                          WriteFile(RemoveFile(files, TEMP_UPDATE_FILE), table_name,
                                    CsvFile(headers, st.written)),
                          "None",
                          "Data updated in table '" \o table_name \o "' successfully.")

\* The variables of the query engine while the stores are under test.
QueryIdle ==
    /\ tmp = <<>>
    /\ nextTmp = 1
    /\ query = <<>>
    /\ parsed = NoParse
    /\ intermediate_results = <<>>
    /\ converted_conditions = <<>>
    /\ acc = <<>>
    /\ out = <<>>
    /\ exc = NoExc

queryVars == <<tmp, nextTmp, query, parsed, intermediate_results,
               converted_conditions, acc, out, exc>>

\* The two tables created: p with primary key id and unique column u, and
\* c with primary key id and the foreign key {pid: p}.
TableArgs ==
    {[table_name |-> "p", columns |-> <<<<"id", "INT">>, <<"u", "INT">>>>,
      primary_key |-> "id", unique_constraints |-> <<"u">>, foreign_keys |-> <<>>],
     [table_name |-> "c", columns |-> <<<<"id", "INT">>, <<"pid", "INT">>>>,
      primary_key |-> "id", unique_constraints |-> <<>>,
      foreign_keys |-> <<[column |-> "pid", referenced_table |-> "p"]>>]}

\* Rows handed to insert: values as ints and as strings, one that is no INT.
InsertArgs ==
    {[table_name |-> "p", data |-> [id |-> i, u |-> u]] :
        i \in {I(1), S("1"), S("2")}, u \in {I(1), S("1"), S("2")}}
    \cup {[table_name |-> "p", data |-> [id |-> S("x"), u |-> S("1")]]}
    \cup {[table_name |-> "c", data |-> [id |-> i, pid |-> f]] :
             i \in {S("1"), S("2")}, f \in {S("1"), S("9")}}

UpdateArgs ==
    {[table_name |-> "p", column |-> "u", value |-> S("1"), new_data |-> [id |-> S("2")]],
     [table_name |-> "p", column |-> "id", value |-> I(1), new_data |-> [u |-> S("2")]],
     [table_name |-> "c", column |-> "id", value |-> S("1"), new_data |-> [pid |-> S("9")]],
     [table_name |-> "c", column |-> "id", value |-> S("2"), new_data |-> [pid |-> S("1")]],
     [table_name |-> "c", column |-> "x", value |-> S("1"), new_data |-> [pid |-> S("1")]]}

\* Database(): an empty table folder and no metadata file.
InitDb ==
    /\ QueryIdle
    /\ metadata = <<>>
    /\ data = <<>>
    /\ fslog = <<>>
    /\ pc = "Database"
    /\ k = 0
    /\ call = <<>>
    /\ ret = <<>>
    /\ msg = <<>>

\* The state after a call with outcome r.
DbReturn(op, args, r) ==
    /\ metadata' = r.tables
    /\ data' = r.files
    /\ call' = [op |-> op, args |-> args, tables |-> metadata, before |-> data]
    /\ ret' = <<r.ret>>
    /\ msg' = <<r.msg>>
    /\ UNCHANGED <<queryVars, fslog, pc>>

DbCreateTable ==
    /\ pc = "Database"
    /\ \E a \in TableArgs :
          /\ add_extension(a.table_name) \notin DOMAIN metadata
          /\ DbReturn("create_table", a,
                      create_table(metadata, data, a.table_name, a.columns,
                                   a.primary_key, a.unique_constraints,
                                   a.foreign_keys))
    /\ UNCHANGED k

DbInsert ==
    /\ pc = "Database"
    /\ k < MaxDbCalls
    /\ \E a \in InsertArgs :
          DbReturn("insert", a, insert(metadata, data, a.table_name, a.data))
    /\ k' = k + 1

DbUpdate ==
    /\ pc = "Database"
    /\ k < MaxDbCalls
    /\ \E a \in UpdateArgs :
          DbReturn("update", a,
                   update(metadata, data, a.table_name, a.column, a.value, a.new_data))
    /\ k' = k + 1

NextDb ==
    \/ DbCreateTable
    \/ DbInsert
    \/ DbUpdate

SpecDb == InitDb /\ [][NextDb]_vars

\* The messages of the three constraint violations of insert.
ConstraintMessages ==
    {"Error: Primary key constraint violated for column 'id'.",
     "Error: Unique constraint violated.",
     "Error: Foreign key constraint violated."}

\* C15: when insert has rejected a row for a primary-key, unique or
\* foreign-key violation, it has returned False and the table folder holds
\* the files it held before the call, with the same content.
C15_RejectedInsertLeavesFolder ==
    (pc = "Database" /\ call # <<>> /\ call.op = "insert"
     /\ msg[1] \in ConstraintMessages)
    => /\ ret = <<"False">>
       /\ data = call.before

\* C16: no two rows of a table file hold the same value in the table's
\* primary-key column.
C16_PrimaryKeyUnique ==
    pc = "Database"
    => \A f \in DOMAIN metadata :
          metadata[f].primary_key # ""
          => \A i, j \in DOMAIN data[f].rows :
                i # j => data[f].rows[i][metadata[f].primary_key]
                         # data[f].rows[j][metadata[f].primary_key]

\* The primary-key values of the table the foreign key refers to, before
\* the call.
ReferencedKeys(foreign_key) ==
    LET f == add_extension(foreign_key.referenced_table)
    IN  {call.before[f].rows[i][call.tables[f].primary_key] :
            i \in DOMAIN call.before[f].rows}

\* The last call was an insert into a table with a foreign key whose value
\* in the new row is no primary key of the referenced table.
DanglingInsert ==
    /\ pc = "Database"
    /\ call # <<>>
    /\ call.op = "insert"
    /\ add_extension(call.args.table_name) \in DOMAIN call.tables
    /\ \E i \in DOMAIN call.tables[add_extension(call.args.table_name)].foreign_keys :
          LET foreign_key ==
                  call.tables[add_extension(call.args.table_name)].foreign_keys[i]
          IN  /\ add_extension(foreign_key.referenced_table) \in DOMAIN call.tables
              /\ Str(call.args.data[foreign_key.column])
                     \notin ReferencedKeys(foreign_key)

\* C17: an insert whose foreign-key value matches no primary key of the
\* referenced table has returned False and left the table file as it was.
C17_ForeignKeyEnforced ==
    DanglingInsert
    => /\ ret = <<"False">>
       /\ data[add_extension(call.args.table_name)]
              = call.before[add_extension(call.args.table_name)]

----------------------------------------------------------------------------
(* SpecColl: the collections of src/nosql/functions.py.  metadata is the    *)
(* list database['collections'] of the selected database in metadata.json  *)
(* (entries [name, partition_count], in file order), data the files        *)
(* data/{db}_{c}_{i}.json of the collection (i -> list of records), fslog   *)
(* the files written outside data/.  A record is a JSON object known by    *)
(* the number of bytes of json.dumps(record).                               *)

MaxCollCalls == 4    \* calls of the collection functions in a behaviour of SpecColl

MAX_FILE_SIZE == 4000000

COLLECTION == "t"

RECURSIVE SumSizes(_)
SumSizes(items) ==
    IF items = <<>> THEN 0 ELSE items[1].size + SumSizes(Tail(items))

\* calculate_data_size(item) of one record: len(json.dumps(item).encode()).
calculate_item_size(item) == item.size

\* calculate_data_size(list): "[" + ", ".join(records) + "]".
calculate_data_size(items) ==
    IF items = <<>> THEN 2 ELSE 2 + SumSizes(items) + 2 * (Len(items) - 1)

\* The first entry of the collection in database['collections'], 0 if none.
CollectionIndex(collections, collection_name) ==
    IF \E i \in DOMAIN collections : collections[i].name = collection_name
    THEN CHOOSE i \in DOMAIN collections :
            /\ collections[i].name = collection_name
            /\ \A j \in 1..(i - 1) : collections[j].name # collection_name
    ELSE 0

\* update_metadata: set the partition_count of the first entry of the
\* collection, or append a new entry.
update_metadata(collections, collection_name, file_number) ==
    LET i == CollectionIndex(collections, collection_name)
    IN  IF i # 0
        THEN [collections EXCEPT ![i].partition_count = file_number]
        ELSE Append(collections,
                    [name |-> collection_name, partition_count |-> file_number])

\* functions.get_last_file_number: the partition_count of the first entry of
\* the collection, None (Null) when there is none.
functions_get_last_file_number(collections, collection_name) ==
    LET i == CollectionIndex(collections, collection_name)
    IN  IF i # 0 THEN I(collections[i].partition_count) ELSE Null

\* What a call leaves: the collections list, the files of data/, the log of
\* writes outside data/, the value returned and the exception raised.
CollResult(collections, files, log, value, error) ==
    [collections |-> collections, files |-> files, log |-> log,
     ret |-> value, exc |-> error]

\* open(path, 'w') and json.dump(items): the file is created or replaced.
DumpFile(files, n, items) == (n :> items) @@ files

\* create_collection: append an entry with partition_count 1 and write [] to
\* partition 1.
create_collection(collections, files, log, collection_name) ==
    CollResult(Append(collections,
                      [name |-> collection_name, partition_count |-> 1]),
               DumpFile(files, 1, <<>>), log, "True", NoExc)

\* drop_collection: remove the file numbered partition_count, then the
\* entry; False when the collection has no entry.
drop_collection(collections, files, log, collection_name) ==
    LET i == CollectionIndex(collections, collection_name)
    IN  IF i = 0
        THEN CollResult(collections, files, log, "False", NoExc)
        ELSE IF collections[i].partition_count \notin DOMAIN files
        THEN CollResult(collections, files, log, "", "FileNotFoundError")
        ELSE CollResult(
                 [j \in 1..(Len(collections) - 1) |->
                     IF j < i THEN collections[j] ELSE collections[j + 1]],
                 [n \in DOMAIN files \ {collections[i].partition_count} |-> files[n]],
                 log, "True", NoExc)

\* existing_file_number+1 that skips a partition number.
NextPartitionSkips(existing_file_number) == existing_file_number + 2

\* existing_file_number+1: the partition opened when the current one is full.
NextPartition(existing_file_number) == existing_file_number + 1

\* insert_one: the record goes to a new partition when the current one and
\* the record together reach MAX_FILE_SIZE, else to the end of the current.
insert_one(collections, files, log, json_data) ==
    LET existing_file_number ==
            functions_get_last_file_number(collections, COLLECTION)
    IN  IF existing_file_number = Null
        THEN CollResult(collections, files, log, "False", NoExc)
        ELSE IF existing_file_number.n \notin DOMAIN files
        THEN CollResult(collections, files, log, "", "FileNotFoundError")
        ELSE LET existing_data == files[existing_file_number.n]
                 existing_data_size == calculate_data_size(existing_data)
                 new_data_size == calculate_item_size(json_data)
             IN  IF existing_data_size + new_data_size >= MAX_FILE_SIZE
                 THEN CollResult(
                          update_metadata(collections, COLLECTION,
                                          NextPartition(existing_file_number.n)),
                          DumpFile(files, NextPartition(existing_file_number.n),
                                   <<json_data>>),
                          log, "True", NoExc)
                 ELSE CollResult(
                          collections,
                          DumpFile(files, existing_file_number.n,
                                   Append(existing_data, json_data)),
                          log, "True", NoExc)

\* The path insert_many writes for a collection without an entry.
PARENT_DATA_FILE == "../data/db_t_1.json"

\* insert_many: for a collection without an entry, write the records to
\* ../data and add the entry (parent_exists: the directory ../data exists);
\* when the current partition and the records together reach
\* MAX_FILE_SIZE, bump partition_count, then send each record to the new
\* partition when it and the size the current partition had at the start
\* reach MAX_FILE_SIZE, else to the current one; otherwise extend the
\* current partition.
insert_many(collections, files, log, json_data, parent_exists) ==
    LET existing_file_number ==
            functions_get_last_file_number(collections, COLLECTION)
    IN  IF existing_file_number = Null
        THEN IF parent_exists
             THEN CollResult(update_metadata(collections, COLLECTION, 1), files,
                             Append(log, Ev("write", PARENT_DATA_FILE, json_data)),
                             "True", NoExc)
             ELSE CollResult(collections, files, log, "", "FileNotFoundError")
        ELSE IF existing_file_number.n \notin DOMAIN files
        THEN CollResult(collections, files, log, "", "FileNotFoundError")
        ELSE LET existing_data == files[existing_file_number.n]
                 existing_data_size == calculate_data_size(existing_data)
                 new_data_size == calculate_data_size(json_data)
                 Overflows(item) ==
                     existing_data_size + calculate_item_size(item) >= MAX_FILE_SIZE
                 Fits(item) == ~Overflows(item)
             IN  IF existing_data_size + new_data_size >= MAX_FILE_SIZE
                 THEN CollResult(
                          update_metadata(collections, COLLECTION,
                                          NextPartition(existing_file_number.n)),
                          DumpFile(DumpFile(files,
                                            NextPartition(existing_file_number.n),
                                            SelectSeq(json_data, Overflows)),
                                   existing_file_number.n,
                                   existing_data \o SelectSeq(json_data, Fits)),
                          log, "True", NoExc)
                 ELSE CollResult(
                          collections,
                          DumpFile(files, existing_file_number.n,
                                   existing_data \o json_data),
                          log, "True", NoExc)

\* Sizes of the records inserted: each is below MAX_FILE_SIZE.
RecordSizes == {1000000, 1999998, 3999999}

Records == {[size |-> n] : n \in RecordSizes}

\* The lists handed to insert_many: up to two records.
RecordLists ==
    {<<>>} \cup {<<r>> : r \in Records} \cup {<<r, q>> : r, q \in Records}

InitColl ==
    /\ QueryIdle
    /\ metadata = <<>>
    /\ data = <<>>
    /\ fslog = <<>>
    /\ pc = "functions"
    /\ k = 0
    /\ call = <<>>
    /\ ret = <<>>
    /\ msg = <<>>

\* The state after a call with outcome r; exc is the exception of the last
\* call.
CollReturn(op, args, r) ==
    /\ k < MaxCollCalls
    /\ k' = k + 1
    /\ metadata' = r.collections
    /\ data' = r.files
    /\ fslog' = r.log
    /\ call' = [op |-> op, args |-> args, collections |-> metadata, before |-> data]
    /\ ret' = <<r.ret>>
    /\ exc' = r.exc
    /\ UNCHANGED <<tmp, nextTmp, query, parsed, intermediate_results,
                   converted_conditions, acc, out, msg, pc>>

CollCreate ==
    /\ pc = "functions"
    /\ \E r \in {create_collection(metadata, data, fslog, COLLECTION)} :
          CollReturn("create_collection", <<>>, r)

CollDrop ==
    /\ pc = "functions"
    /\ \E r \in {drop_collection(metadata, data, fslog, COLLECTION)} :
          CollReturn("drop_collection", <<>>, r)

CollInsertOne ==
    /\ pc = "functions"
    /\ \E json_data \in Records :
          \E r \in {insert_one(metadata, data, fslog, json_data)} :
             CollReturn("insert_one", json_data, r)

CollInsertMany ==
    /\ pc = "functions"
    /\ \E json_data \in RecordLists, parent_exists \in BOOLEAN :
          \E r \in {insert_many(metadata, data, fslog, json_data, parent_exists)} :
             CollReturn("insert_many", json_data, r)

NextColl ==
    \/ CollCreate
    \/ CollDrop
    \/ CollInsertOne
    \/ CollInsertMany

SpecColl == InitColl /\ [][NextColl]_vars

\* The partition_count of the collection in a collections list, 0 without
\* an entry.
PartitionCount(collections) ==
    LET n == functions_get_last_file_number(collections, COLLECTION)
    IN  IF n = Null THEN 0 ELSE n.n

\* C18: when drop_collection has returned True for a collection of n
\* partitions, the metadata has no entry of the collection and none of the
\* partition files 1..n is left in data/.
C18_DropRemovesEveryPartition ==
    (pc = "functions" /\ call # <<>> /\ call.op = "drop_collection"
     /\ ret = <<"True">>)
    => /\ CollectionIndex(metadata, COLLECTION) = 0
       /\ \A i \in 1..PartitionCount(call.collections) : i \notin DOMAIN data

\* C19: every partition file of the collection has a serialized size below
\* MAX_FILE_SIZE (every record inserted is smaller than MAX_FILE_SIZE).
C19_PartitionsBelowMax ==
    pc = "functions"
    => \A i \in DOMAIN data : calculate_data_size(data[i]) < MAX_FILE_SIZE

\* C20: a step of insert_one or insert_many changes no partition file other
\* than the one numbered partition_count at the start of the call and the
\* one numbered partition_count + 1, and does not lower partition_count.
C20_AppendOrdered ==
    [][(pc = "functions" /\ call' # <<>>
        /\ call'.op \in {"insert_one", "insert_many"})
       => /\ \A i \in (DOMAIN data \cup DOMAIN data') :
                i \notin {PartitionCount(metadata), PartitionCount(metadata) + 1}
                => /\ i \in DOMAIN data
                   /\ i \in DOMAIN data'
                   /\ data'[i] = data[i]
          /\ PartitionCount(metadata') >= PartitionCount(metadata)]_vars

\* An insert_many into a collection of two partitions has opened the third
\* and left the first as it was.
C20_Witness ==
    /\ pc = "functions"
    /\ call # <<>>
    /\ call.op = "insert_many"
    /\ PartitionCount(call.collections) = 2
    /\ PartitionCount(metadata) = 3
    /\ 1 \in DOMAIN data
    /\ data[1] # <<>>
    /\ data[1] = call.before[1]
    /\ data[2] # call.before[2]
    /\ 3 \notin DOMAIN call.before
    /\ data[3] # <<>>

----------------------------------------------------------------------------
(* Further properties of execute_query (Spec).                             *)

\* The query is GET ... FROM ... FILTER x op y with op no known operator.
UnknownOperator ==
    /\ Len(query.parts) = 8
    /\ Lower(query.parts[5]) = "filter"
    /\ query.parts[7] \notin OperatorSymbols

\* No partition file has been opened and no temporary file created.
NothingTouched ==
    /\ \A i \in DOMAIN fslog : fslog[i].path # DataPath("t")
    /\ nextTmp = 1
    /\ DOMAIN tmp = {}

\* C21: a FILTER clause with an operator outside >, <, >=, <=, =, !=, in makes
\* execute_query fail with no partition file read and no temporary file
\* created.
C21_UnknownOperatorFailsFirst ==
    UnknownOperator => NothingTouched

\* C22: execute_query on a collection without a metadata entry returns
\* without an exception, with no row printed, no partition read and no
\* temporary file created.
C22_UnknownCollectionReturns ==
    (parsed # NoParse /\ ~parsed.none /\ parsed.columns # <<>>
     /\ parsed.table \notin DOMAIN metadata /\ pc \notin {"start", "resolve"})
    => /\ pc = "returned"
       /\ exc = NoExc
       /\ out = <<>>
       /\ NothingTouched

----------------------------------------------------------------------------
(* SpecSteps: Database.insert / update / delete of src/database.py with    *)
(* the replacement of the table file taken step by step (temporary file    *)
(* written, os.remove, os.rename), and a reader that opens a table file    *)
(* between the steps.  metadata, data, call, ret and msg are as in SpecDb; *)
(* acc holds the outcome of the call in progress, out what the reader      *)
(* found.                                                                  *)

TEMP_DELETE_FILE == "temp_delete_file.csv"

\* update_references: referenced table -> the tables with a foreign key to
\* it, names without extension.
update_references(tables) ==
    LET Referencing(r) ==
            {ReplaceCsv(t) : t \in {u \in DOMAIN tables :
                \E i \in DOMAIN tables[u].foreign_keys :
                   ReplaceCsv(tables[u].foreign_keys[i].referenced_table) = r}}
    IN  [r \in {r \in {"p", "c"} : Referencing(r) # {}} |->
            CHOOSE q \in [1..Cardinality(Referencing(r)) -> Referencing(r)] :
               \A i, j \in DOMAIN q : i # j => q[i] # q[j]]

\* all(row.get(key) == str(value) for key, value in condition.items())
RowMatches(row, condition) ==
    \A key \in DOMAIN condition :
       key \in DOMAIN row /\ row[key] = Str(condition[key])

\* all(row.get(key) == value ...) of the pass over a referencing table: the
\* cell, a str, is compared with the value itself.
RowMatchesRaw(row, condition) ==
    \A key \in DOMAIN condition :
       key \in DOMAIN row /\ S(row[key]) = condition[key]

\* The pass of a forced delete over the referencing tables, each rewritten
\* without the rows that match the condition.
RECURSIVE DeleteReferencing(_, _, _)
DeleteReferencing(files, referenced_tables, condition) ==
    IF referenced_tables = <<>> THEN [files |-> files, exc |-> NoExc]
    ELSE LET ref == Head(referenced_tables) \o ".csv"
             Kept(row) == ~RowMatchesRaw(row, condition)
         IN  IF ref \notin DOMAIN files
             THEN [files |-> files, exc |-> "FileNotFoundError"]
             ELSE DeleteReferencing(
                      WriteFile(files, ref,
                                CsvFile(files[ref].header,
                                        SelectSeq(files[ref].rows, Kept))),
                      Tail(referenced_tables), condition)

\* delete(table_name, condition, force); references is
\* self.tables.get("references", {}).
delete(tables, files, name, condition, force, references) ==
    LET table_name == add_extension(name)
        referenced == ReplaceCsv(table_name) \in DOMAIN references
        Kept(row) == ~RowMatches(row, condition)
    IN  IF table_name \notin DOMAIN tables
        THEN DbResult(tables, files, "False",
                      "Error: Table '" \o table_name \o "' does not exist.")
        ELSE IF /\ referenced
                /\ ~force
                /\ \E i \in DOMAIN references[ReplaceCsv(table_name)] :
                      LET ref == references[ReplaceCsv(table_name)][i] \o ".csv"
                      IN  /\ ref \in DOMAIN tables
                          /\ \E j \in DOMAIN tables[ref].foreign_keys :
                                tables[ref].foreign_keys[j].referenced_table
                                   = ReplaceCsv(table_name)
        THEN DbResult(tables, files, "False", "Error: Deletion is not allowed.")
        ELSE LET rows == files[table_name].rows
                 kept == SelectSeq(rows, Kept)
                 delete_successful == Len(kept) # Len(rows)
                 replaced == WriteFile(files, table_name,
                                       CsvFile(files[table_name].header, kept))
             IN  IF delete_successful /\ force
                 THEN IF ~referenced
                      THEN DbResult(tables, replaced, "UnboundLocalError", "")
                      ELSE LET r == DeleteReferencing(
                                        replaced, references[ReplaceCsv(table_name)],
                                        condition)
                           IN  IF r.exc # NoExc
                               THEN DbResult(tables, r.files, r.exc, "")
                               ELSE DbResult(tables, r.files, "None",
                                             "Data deleted from table '" \o table_name
                                             \o "' successfully.")
                 ELSE DbResult(tables, files, "None",
                               IF delete_successful
                               THEN "Data deleted from table '" \o table_name
                                    \o "' successfully."
                               ELSE "Data deletion from table '" \o table_name
                                    \o "' was not successful. since the condition was not met.")

\* Conditions and force flags handed to delete, and the references the
\* Database object holds: none when it was built before the tables were
\* created, those of the metadata file when it was built after.
DeleteArgs ==
    {[table_name |-> t, condition |-> c, force |-> f, loaded |-> l] :
        t \in {"p", "c"},
        c \in {<<>>, [id |-> S("1")], [id |-> I(2)], [pid |-> S("1")]},
        f \in BOOLEAN, l \in BOOLEAN}

\* The call reaches os.remove(table_file_path) and os.rename.
Replaces(op, args, r) ==
    IF op = "delete"
    THEN /\ args.force
         /\ add_extension(args.table_name) \in DOMAIN data
         /\ r.files[add_extension(args.table_name)] # data[add_extension(args.table_name)]
    ELSE r.ret = "None"

\* A call up to the end of its with block: a call that does not replace the
\* table file has returned; one that does has written the temporary file.
StepCall(op, args, temp, r) ==
    /\ pc = "Database"
    /\ k < MaxDbCalls
    /\ k' = k + 1
    /\ call' = [op |-> op, args |-> args, tables |-> metadata, before |-> data]
    /\ IF Replaces(op, args, r)
       THEN /\ data' = WriteFile(data, temp, r.files[add_extension(args.table_name)])
            /\ acc' = <<[r |-> r, table |-> add_extension(args.table_name),
                         temp |-> temp]>>
            /\ pc' = "remove"
            /\ ret' = <<>>
            /\ msg' = <<>>
       ELSE /\ data' = r.files
            /\ ret' = <<r.ret>>
            /\ msg' = <<r.msg>>
            /\ UNCHANGED <<acc, pc>>
    /\ UNCHANGED <<metadata, tmp, nextTmp, fslog, query, parsed,
                   intermediate_results, converted_conditions, out, exc>>

StepInsert ==
    /\ pc = "Database"
    /\ \E a \in InsertArgs :
       \E r \in {insert(metadata, data, a.table_name, a.data)} :
          StepCall("insert", a, TEMP_INSERT_FILE, r)

StepUpdate ==
    /\ pc = "Database"
    /\ \E a \in UpdateArgs :
       \E r \in {update(metadata, data, a.table_name, a.column, a.value, a.new_data)} :
          StepCall("update", a, TEMP_UPDATE_FILE, r)

StepDelete ==
    /\ pc = "Database"
    /\ \E a \in DeleteArgs :
       \E r \in {delete(metadata, data, a.table_name, a.condition, a.force,
                        IF a.loaded THEN update_references(metadata) ELSE <<>>)} :
          StepCall("delete", a, TEMP_DELETE_FILE, r)

\* os.remove(table_file_path)
StepRemove ==
    /\ pc = "remove"
    /\ data' = RemoveFile(data, acc[1].table)
    /\ pc' = "rename"
    /\ UNCHANGED <<metadata, tmp, nextTmp, fslog, query, parsed,
                   intermediate_results, converted_conditions, acc, k, out, msg,
                   exc, call, ret>>

\* os.rename(temp_table_file_path, table_file_path) and the rest of the
\* call.
StepRename ==
    /\ pc = "rename"
    /\ data' = acc[1].r.files
    /\ ret' = <<acc[1].r.ret>>
    /\ msg' = <<acc[1].r.msg>>
    /\ acc' = <<>>
    /\ pc' = "Database"
    /\ UNCHANGED <<metadata, tmp, nextTmp, fslog, query, parsed,
                   intermediate_results, converted_conditions, k, out, exc, call>>

\* Another process opens the path of a table for reading: what it finds, and
\* the old and the new contents of that table for the call in progress.
StepRead ==
    /\ \E f \in DOMAIN metadata :
          out' = <<[path |-> f,
                    found |-> IF f \in DOMAIN data THEN <<data[f]>> ELSE <<>>,
                    old |-> IF pc = "Database" THEN data[f] ELSE call.before[f],
                    new |-> IF pc = "Database" THEN data[f] ELSE acc[1].r.files[f]]>>
    /\ UNCHANGED <<metadata, data, tmp, nextTmp, fslog, query, pc, parsed,
                   intermediate_results, converted_conditions, acc, k, msg, exc,
                   call, ret>>

NextSteps ==
    \/ DbCreateTable
    \/ StepInsert
    \/ StepUpdate
    \/ StepDelete
    \/ StepRemove
    \/ StepRename
    \/ StepRead

SpecSteps == InitDb /\ [][NextSteps]_vars

\* C23: a reader that opens the path of a table finds a file, and it holds
\* the complete old or the complete new contents of the table.
C23_ReaderFindsOldOrNew ==
    \A i \in DOMAIN out :
       /\ out[i].found # <<>>
       /\ out[i].found[1] \in {out[i].old, out[i].new}

\* C27: after delete with force=False on table c, which no table
\* references, the table file holds exactly the rows it held before that do
\* not match the condition.
C27_DeleteRemovesMatchingRows ==
    (pc = "Database" /\ call # <<>> /\ call.op = "delete" /\ ~call.args.force
     /\ call.args.table_name = "c" /\ "c.csv" \in DOMAIN call.tables)
    => LET Kept(row) == ~RowMatches(row, call.args.condition)
       IN  data["c.csv"].rows = SelectSeq(call.before["c.csv"].rows, Kept)

----------------------------------------------------------------------------
(* SpecDel: the collections of src/nosql/functions.py with delete_one and  *)
(* delete_many.  The state is that of SpecColl.  A record of n bytes is    *)
(* the object {"p": "x...x"}, so a condition on p names a record size.     *)

\* match_nested_condition(item, condition) for a condition without nested
\* objects: every key of the condition is in the item with that value.
match_nested_condition(item, condition) ==
    \A key \in DOMAIN condition :
       key \in DOMAIN item /\ item[key] = condition[key]

\* The first index of items that matches the condition, 0 if none.
FirstMatch(items, condition) ==
    IF \E i \in DOMAIN items : match_nested_condition(items[i], condition)
    THEN CHOOSE i \in DOMAIN items :
            /\ match_nested_condition(items[i], condition)
            /\ \A j \in 1..(i - 1) : ~match_nested_condition(items[j], condition)
    ELSE 0

\* The for loop of delete_one over the partitions i..existing_file_number.
RECURSIVE DeleteOneLoop(_, _, _, _, _, _)
DeleteOneLoop(collections, files, log, i, existing_file_number, condition) ==
    IF i > existing_file_number
    THEN CollResult(collections, files, log, "False", NoExc)
    ELSE IF i \notin DOMAIN files
    THEN CollResult(collections, files, log, "False", NoExc)
    ELSE IF files[i] = <<>>
    THEN CollResult(collections, files, log, "False", NoExc)
    ELSE LET m == FirstMatch(files[i], condition)
         IN  IF m # 0
             THEN CollResult(collections,
                             DumpFile(files, i, RemoveAt(files[i], m)),
                             log, "True", NoExc)
             ELSE DeleteOneLoop(collections, files, log, i + 1,
                                existing_file_number, condition)

\* delete_one: with the empty condition the first record of partition 1 is
\* popped and the call runs on to its last line; otherwise the partitions
\* are searched in order.
delete_one(collections, files, log, condition) ==
    LET existing_file_number ==
            functions_get_last_file_number(collections, COLLECTION)
    IN  IF DOMAIN condition = {}
        THEN IF 1 \notin DOMAIN files
             THEN CollResult(collections, files, log, "", "FileNotFoundError")
             ELSE IF Len(files[1]) > 0
             THEN CollResult(collections, DumpFile(files, 1, Tail(files[1])),
                             log, "False", NoExc)
             ELSE CollResult(collections, files, log, "False", NoExc)
        ELSE IF existing_file_number = Null
        THEN CollResult(collections, files, log, "", "TypeError")
        ELSE DeleteOneLoop(collections, files, log, 1, existing_file_number.n,
                           condition)

\* The for loop of delete_many over the partitions i..existing_file_number.
RECURSIVE DeleteManyLoop(_, _, _, _, _, _, _)
DeleteManyLoop(collections, files, log, i, existing_file_number, condition, deleted) ==
    IF i > existing_file_number
    THEN CollResult(collections, files, log,
                    IF deleted THEN "True" ELSE "False", NoExc)
    ELSE IF i \notin DOMAIN files
    THEN CollResult(collections, files, log, "False", NoExc)
    ELSE IF DOMAIN condition = {}
    THEN IF i > 1
         THEN DeleteManyLoop(collections,
                             [n \in DOMAIN files \ {i} |-> files[n]], log, i + 1,
                             existing_file_number, condition, TRUE)
         ELSE DeleteManyLoop(update_metadata(collections, COLLECTION, 1),
                             DumpFile(files, i, <<>>), log, i + 1,
                             existing_file_number, condition, TRUE)
    ELSE LET Keep(item) == ~match_nested_condition(item, condition)
             to_keep == SelectSeq(files[i], Keep)
         IN  IF Len(files[i]) = Len(to_keep)
             THEN DeleteManyLoop(collections, files, log, i + 1,
                                 existing_file_number, condition, deleted)
             ELSE DeleteManyLoop(collections, DumpFile(files, i, to_keep), log,
                                 i + 1, existing_file_number, condition, TRUE)

\* delete_many
delete_many(collections, files, log, condition) ==
    LET existing_file_number ==
            functions_get_last_file_number(collections, COLLECTION)
    IN  IF existing_file_number = Null
        THEN CollResult(collections, files, log, "", "TypeError")
        ELSE DeleteManyLoop(collections, files, log, 1, existing_file_number.n,
                            condition, FALSE)

\* The conditions handed to delete_one and delete_many: the empty one and
\* one per record.
Conditions == {<<>>} \cup Records

CollDeleteOne ==
    /\ pc = "functions"
    /\ \E condition \in Conditions :
          \E r \in {delete_one(metadata, data, fslog, condition)} :
             CollReturn("delete_one", condition, r)

CollDeleteMany ==
    /\ pc = "functions"
    /\ \E condition \in Conditions :
          \E r \in {delete_many(metadata, data, fslog, condition)} :
             CollReturn("delete_many", condition, r)

NextDel ==
    \/ CollCreate
    \/ CollDrop
    \/ CollInsertOne
    \/ CollInsertMany
    \/ CollDeleteOne
    \/ CollDeleteMany

SpecDel == InitColl /\ [][NextDel]_vars

\* The last call was delete_one and it has returned.
DeleteOneReturned ==
    /\ pc = "functions"
    /\ call # <<>>
    /\ call.op = "delete_one"
    /\ exc = NoExc

\* The partition files are those before the call with one record removed.
OneRecordRemoved ==
    \E i \in DOMAIN call.before :
       \E m \in DOMAIN call.before[i] :
          data = DumpFile(call.before, i, RemoveAt(call.before[i], m))

\* C24: delete_one returns True exactly when it has removed one record and
\* False exactly when it has left the records of the collection unchanged.
C24_DeleteOneReportsOutcome ==
    DeleteOneReturned
    => /\ ret = <<"True">> <=> OneRecordRemoved
       /\ ret = <<"False">> <=> data = call.before

\* The partitions of the collection that held a record matching the
\* condition before the call.
MatchingPartitions ==
    {i \in DOMAIN call.before \cap 1..PartitionCount(call.collections) :
        FirstMatch(call.before[i], call.args) # 0}

\* C25: when some partition holds a record that matches the non-empty
\* condition, delete_one removes exactly the first matching record of the
\* first such partition.
C25_DeleteOneRemovesFirstMatch ==
    (pc = "functions" /\ call # <<>> /\ call.op = "delete_one"
     /\ DOMAIN call.args # {} /\ MatchingPartitions # {})
    => LET i == CHOOSE i \in MatchingPartitions :
                   \A j \in MatchingPartitions : i <= j
       IN  data = DumpFile(call.before, i,
                           RemoveAt(call.before[i],
                                    FirstMatch(call.before[i], call.args)))

\* C26: for every collection the metadata lists with partition_count n, the
\* partition files 1..n exist.
C26_MetadataMatchesFiles ==
    pc = "functions"
    => \A c \in DOMAIN metadata :
          \A i \in 1..metadata[c].partition_count : i \in DOMAIN data

----------------------------------------------------------------------------
(* Further properties of the GROUP branch of execute_query (Spec).         *)

\* The GROUP branch has run partial_aggregate and final_aggregate to the
\* end: the group fields are all selected and no stage before has raised.
GroupBranchRan ==
    /\ pc = "finally"
    /\ parsed.group_by # <<>>
    /\ \A i \in DOMAIN parsed.group_by : Has(parsed.columns, parsed.group_by[i])
    /\ parsed.conditions = <<>> \/ converted_conditions # <<>>
    /\ exc \in {"TypeError", "NameError"}
    /\ LET q == parse_aggregation_query(parsed.columns)
       IN  Aggregate(FsNow, intermediate_results, q.group_key, q.targets).exc = NoExc

\* C28: the key by which the GROUP branch groups the records is the list of
\* fields of the GROUP clause, and final_aggregate yields one group per
\* distinct tuple of these fields among the filtered records.
C28_GroupKeyIsGroupClause ==
    GroupBranchRan
    => LET q == parse_aggregation_query(parsed.columns)
       IN  /\ q.group_key = parsed.group_by
           /\ Len(Aggregate(FsNow, intermediate_results, q.group_key,
                            q.targets).rows)
                 = Cardinality(GroupKeys)

----------------------------------------------------------------------------
(* _merge_sorted_files one step at a time.  acc is the merge state, k the  *)
(* file_index the population loop is at, tmp[i] the sorted run i, and ret  *)
(* the (key, file_index) pairs heappop returned, in order.                 *)

\* The sorted runs execute_external_sort hands over: one per input file,
\* each written by _sort_and_write_chunk (all records carry the sort key,
\* or the call raised before any merge).
InitMerge ==
    /\ metadata = <<>>
    /\ data = <<>>
    /\ query = <<>>
    /\ parsed = NoParse
    /\ intermediate_results = <<>>
    /\ converted_conditions = <<>>
    /\ out = <<>>
    /\ msg = <<>>
    /\ exc = NoExc
    /\ \E X \in SeqsUpTo(SortRows, MaxSortRows) :
       \E files \in AllSplits(X, MaxSortFiles) :
       \E sort_key \in SortKeys, reverse \in BOOLEAN :
          /\ \A i \in DOMAIN X : HasKey(X[i], sort_key)
          /\ tmp = [i \in DOMAIN files |->
                      DumpAll(SortItems(files[i], sort_key, reverse, <<>>))]
          /\ nextTmp = Len(files) + 1
          /\ call = [sorted_files |-> [i \in DOMAIN files |-> i],
                     sort_key |-> sort_key, reverse |-> reverse]
          /\ acc = [runs |-> tmp, pos |-> [i \in DOMAIN files |-> 0],
                    heap |-> <<>>, merged |-> <<>>, exc |-> NoExc]
    /\ fslog = [i \in DOMAIN tmp |-> Ev("open", "", i)]
    /\ k = 0
    /\ pc = "populate"
    /\ ret = <<>>

mergeIdle == <<metadata, data, query, parsed, intermediate_results,
               converted_conditions, out, msg, exc, call>>

\* for file_index, file in enumerate(files): readline, push if not empty.
MergePopulate ==
    /\ pc = "populate"
    /\ k < Len(acc.runs)
    /\ IF acc.runs[k + 1] = <<>>
       THEN UNCHANGED <<acc, pc>>
       ELSE \E p \in {push_to_heap(acc.heap, k, JsonLoads(acc.runs[k + 1][1]),
                                   call.sort_key, call.reverse)} :
               /\ acc' = [acc EXCEPT !.heap = p.heap, !.exc = p.exc,
                                     !.pos[k + 1] = 1]
               /\ pc' = IF p.exc # NoExc THEN "raised" ELSE pc
    /\ k' = k + 1
    /\ UNCHANGED <<mergeIdle, tmp, nextTmp, fslog, ret>>

\* merged_file = tempfile.NamedTemporaryFile(delete=False, mode='w')
MergeCreate ==
    /\ pc = "populate"
    /\ k = Len(acc.runs)
    /\ SetFs(NamedTemporaryFile(FsNow))
    /\ pc' = "merge"
    /\ UNCHANGED <<mergeIdle, acc, k, ret>>

\* One round of `while heap`.
MergePop ==
    /\ pc = "merge"
    /\ acc.heap # <<>>
    /\ \E ms \in {MergeStep(acc, call.sort_key, call.reverse)} :
          /\ acc' = ms
          /\ tmp' = [tmp EXCEPT ![nextTmp - 1] = ms.merged]
          /\ pc' = IF ms.exc # NoExc THEN "raised" ELSE pc
    /\ ret' = Append(ret, [key |-> acc.heap[HeapMin(acc.heap)].key,
                           file_index |-> acc.heap[HeapMin(acc.heap)].file_index])
    /\ UNCHANGED <<mergeIdle, nextTmp, fslog, k>>

\* The heap is empty: the files are closed and the merged file returned.
MergeClose ==
    /\ pc = "merge"
    /\ acc.heap = <<>>
    /\ pc' = "returned"
    /\ UNCHANGED <<mergeIdle, acc, tmp, nextTmp, fslog, k, ret>>

NextMerge == MergePopulate \/ MergeCreate \/ MergePop \/ MergeClose

SpecMerge == InitMerge /\ [][NextMerge]_vars

\* C30: at every step of _merge_sorted_files the heap holds at most one
\* entry per sorted run (the file_index values in the heap are pairwise
\* distinct), so no comparison gets as far as the records: the only
\* TypeError a push raises is the negation of a string key; and of two
\* popped entries with equal keys the one popped first is from the run with
\* the lower (or the same) index.
C30_HeapOnePerRun ==
    /\ \A i, j \in DOMAIN acc.heap :
          i # j => acc.heap[i].file_index # acc.heap[j].file_index
    /\ \A i \in DOMAIN acc.heap : acc.heap[i].file_index \in 0..(Len(acc.runs) - 1)
    /\ acc.exc # NoExc =>
          /\ acc.exc = "TypeError"
          /\ call.reverse
          /\ \E i \in DOMAIN acc.runs : \E n \in DOMAIN acc.runs[i] :
                \E f \in DOMAIN KeyOf(JsonLoads(acc.runs[i][n]), call.sort_key) :
                   KeyOf(JsonLoads(acc.runs[i][n]), call.sort_key)[f].t # "int"
    /\ \A p, q \in DOMAIN ret :
          (p < q /\ ret[p].key = ret[q].key)
             => ret[p].file_index <= ret[q].file_index

\* Two runs with a key in common were merged to the end: both runs were in
\* the heap together and records with the same key came out of both.
C30_Witness ==
    /\ pc = "returned"
    /\ Len(acc.runs) = 2
    /\ Len(ret) = 3
    /\ \E p, q \in DOMAIN ret :
          /\ p < q
          /\ ret[p].key = ret[q].key
          /\ ret[p].file_index = 0
          /\ ret[q].file_index = 1
    /\ \E p \in DOMAIN ret : p > 1 /\ ret[p].file_index = 0

----------------------------------------------------------------------------
(* The life of the intermediate files of execute_query (Spec), read off    *)
(* the log of file events: create, open (for reading) and remove of the    *)
(* temporary file n.                                                       *)

TmpEvents(op, n) == {i \in DOMAIN fslog : fslog[i] = Ev(op, "", n)}

\* No temporary file is opened after its removal, none by two stages.
OpenedAtMostOnceAndAlive ==
    \A n \in 1..(nextTmp - 1) :
       /\ Cardinality(TmpEvents("open", n)) <= 1
       /\ \A i \in TmpEvents("remove", n), j \in TmpEvents("open", n) : j < i

\* C29: during execute_query no intermediate file is opened after it was
\* deleted and none is read by two stages, and when execute_query has
\* returned normally every intermediate file it created was read by exactly
\* one downstream stage (the filter, the sort, select_fields, the
\* aggregation or the printing loop).
C29_EveryFileReadOnce ==
    /\ OpenedAtMostOnceAndAlive
    /\ (pc = "returned" /\ parsed # NoParse)
       => \A n \in 1..(nextTmp - 1) : Cardinality(TmpEvents("open", n)) = 1

====
